---- MODULE Spec2Model ----
(***************************************************************************)
(* SQLiteCpp: the prepared-statement state machine (Statement.cpp and      *)
(* StatementExecutor.cpp), the reference-counted statement handle          *)
(* (Statement::Ptr) and the Transaction scope guard, over a small model of *)
(* the native engine calls they forward to.                                *)
(***************************************************************************)
EXTENDS Integers, Sequences, FiniteSets, TLC

(***************************************************************************)
(* Bounds of the model.                                                    *)
(***************************************************************************)
MaxRows == 2
MaxCols == 2
NParams == 2
MaxChanges == 1
MaxHolders == 5
MaxWrites == 2
MaxTxns == 2
MaxCommits == 2
MaxPages == 2
MaxViews == 1
MaxStmts == 1
MaxSteps == 3
MaxThreadOps == 6

(***************************************************************************)
(* Native result codes (sqlite3.h), as the sources name them.              *)
(***************************************************************************)
SQLITE_OK == 0
SQLITE_ERROR == 1
SQLITE_BUSY == 5
SQLITE_LOCKED == 6
SQLITE_MISUSE == 21
SQLITE_RANGE == 25
SQLITE_ROW == 100
SQLITE_DONE == 101
\* Exception(const std::string&): mErrcode(-1), mExtendedErrcode(-1)
NoCode == -1

NULL == "NULL"
Values == {NULL, "v1"}
AllNames == <<"a", "b", "c", "d">>
UnknownName == "z"
Revisions == {"Statement", "StatementExecutor"}
NativeErrors == {SQLITE_ERROR, SQLITE_BUSY}
NoParams == <<>>

VARIABLES
    stmt,       \* one statement object and the native statement/connection behind it
    outcome,    \* what the last call on the statement did: returned or threw
    ptr,        \* one Statement::Ptr reference-counted handle and its holders
    txn,        \* one Transaction object and the native connection behind it
    txnOutcome, \* what the last Transaction/Database call did
    bk,         \* two connections, the Backup between them, the last call on them
    it          \* a StatementExecutor with the views and iterators taken from it

vars == <<stmt, outcome, ptr, txn, txnOutcome, bk, it>>

(***************************************************************************)
(* The native engine, as far as the wrapper observes it.                   *)
(*   vm       "ready" after prepare/reset, "run" after a step gave a row,  *)
(*            "halt" after a step finished or failed                       *)
(*   cursor   rows delivered in the current execution                      *)
(*   stepRc   result of the most recent sqlite3_step (OK when none)        *)
(*   errcode  sqlite3_errcode of the connection                            *)
(*   usedParams, prevParams, runs   the bindings the engine read when the  *)
(*            most recent execution started and when the one before it     *)
(*            started, and whether no ("none"), one ("first") or more      *)
(*            ("again") executions started since the last change of a      *)
(*            binding                                                      *)
(*   nCols    sqlite3_column_count of the prepared statement               *)
(*   mCurrentStep   the step counter of the shared handle (StatementPtr)   *)
(*   stepCalls      history: StatementPtr::step calls since the last       *)
(*            StatementPtr::reset (or construction)                        *)
(***************************************************************************)
AllNull == [i \in 1..NParams |-> NULL]

\* the results sqlite3_step can give in state s: a step on a halted statement
\* restarts the execution (sqlite3_prepare_v2 statements reset themselves)
StepResults(s) ==
    LET eff == IF s.vm = "halt" THEN 0 ELSE s.cursor
    IN (IF eff < s.nRows THEN {SQLITE_ROW} ELSE {SQLITE_DONE}) \cup NativeErrors

sqlite3_step(s, r, c) ==
    LET eff == IF s.vm = "halt" THEN 0 ELSE s.cursor
        starts == s.vm # "run"
    IN [s EXCEPT !.vm = IF r = SQLITE_ROW THEN "run" ELSE "halt",
                 !.cursor = IF r = SQLITE_ROW THEN eff + 1 ELSE eff,
                 !.stepRc = r,
                 !.errcode = r,
                 !.changes = IF r = SQLITE_DONE THEN c ELSE @,
                 !.prevParams = IF starts THEN s.usedParams ELSE @,
                 !.usedParams = IF starts THEN s.bindings ELSE @,
                 !.runs = IF starts THEN (IF @ = "none" THEN "first" ELSE "again") ELSE @]

\* sqlite3_reset reports the error of the most recent step, if it failed
ResetResult(s) ==
    IF s.vm = "halt" /\ s.stepRc \in NativeErrors THEN s.stepRc ELSE SQLITE_OK

sqlite3_reset(s) ==
    [s EXCEPT !.vm = "ready", !.cursor = 0, !.stepRc = SQLITE_OK,
              !.errcode = ResetResult(s)]

\* sqlite3_bind_*: MISUSE on a statement stepped since its last reset, RANGE
\* for a position outside 1..NParams
BindResult(s, i) ==
    IF s.vm # "ready" THEN SQLITE_MISUSE
    ELSE IF i \notin 1..NParams THEN SQLITE_RANGE
    ELSE SQLITE_OK

sqlite3_bind(s, i, v) ==
    IF BindResult(s, i) = SQLITE_OK
    THEN [s EXCEPT !.bindings[i] = v, !.errcode = SQLITE_OK,
                   !.usedParams = NoParams, !.prevParams = NoParams, !.runs = "none"]
    ELSE [s EXCEPT !.errcode = BindResult(s, i)]

\* sqlite3_clear_bindings always succeeds
sqlite3_clear_bindings(s) ==
    [s EXCEPT !.bindings = AllNull,
              !.usedParams = NoParams, !.prevParams = NoParams, !.runs = "none"]

(***************************************************************************)
(* Outcome of a call: a normal return (flag for a bool, value for an int   *)
(* or a column index) or a thrown SQLite::Exception (its getErrorCode and  *)
(* which message it was built from).  pre is the step state the call found,*)
(* steps the number of sqlite3_step calls it made, arg/name the index or    *)
(* name the caller passed.                                                 *)
(***************************************************************************)
StateOf(s) == IF s.mbDone THEN "Done" ELSE IF s.mbHasRow THEN "HasRow" ELSE "Ready"

Returned(op, s, flag, value, n) ==
    [op |-> op, pre |-> StateOf(s), threw |-> FALSE, flag |-> flag, value |-> value,
     code |-> SQLITE_OK, ext |-> SQLITE_OK, msg |-> "", steps |-> n, arg |-> 0,
     name |-> ""]

\* Exception(const std::string& aErrorMessage): both codes are -1
ExceptionMsg(op, s, msg, n) ==
    [op |-> op, pre |-> StateOf(s), threw |-> TRUE, flag |-> FALSE, value |-> 0,
     code |-> NoCode, ext |-> NoCode, msg |-> msg, steps |-> n, arg |-> 0, name |-> ""]

\* Exception(sqlite3* apSQLite, int ret): mErrcode(ret) and the connection's
\* sqlite3_extended_errcode, here ret without extension bits
ExceptionRet(op, s, ret, msg, n) ==
    [op |-> op, pre |-> StateOf(s), threw |-> TRUE, flag |-> FALSE, value |-> 0,
     code |-> ret, ext |-> ret, msg |-> msg, steps |-> n, arg |-> 0, name |-> ""]

\* throw SQLite::Exception("Statement needs to be reseted", ret): a message
\* and a code, no connection to read an extended code from
ExceptionMsgRet(op, s, msg, ret, n) ==
    [op |-> op, pre |-> StateOf(s), threw |-> TRUE, flag |-> FALSE, value |-> 0,
     code |-> ret, ext |-> NoCode, msg |-> msg, steps |-> n, arg |-> 0, name |-> ""]

(***************************************************************************)
(* StatementExecutor (StatementExecutor.cpp / StatementExecutor.h).        *)
(* Each operation maps the object s and the native results it meets to the *)
(* object after the call and the call's outcome.                           *)
(***************************************************************************)
Call(s, out) == [s |-> s, out |-> out]

\* void check(const int aRet) const, applied after the call that gave ret
check(op, pre, s, ret) ==
    IF SQLITE_OK # ret
    THEN Call(s, ExceptionRet(op, pre, ret, "errmsg", 0))
    ELSE Call(s, Returned(op, pre, FALSE, 0, 0))

\* void checkRow() const: does it throw
checkRow(s) == FALSE = s.mbHasRow

\* checkIndex without the test for a negative index
checkIndex_noNegative(s, aIndex) == aIndex >= s.mColumnCount

\* void checkIndex(const int aIndex) const: does it throw
checkIndex(s, aIndex) == (aIndex < 0) \/ (aIndex >= s.mColumnCount)

\* tryReset that leaves mbDone as it was
tryReset_keepsDone(s) ==
    LET flagged == [s EXCEPT !.mbHasRow = FALSE]
    IN [s |-> sqlite3_reset(flagged), ret |-> ResetResult(flagged)]

\* tryReset that also wipes the parameter bindings
tryReset_clearsBindings(s) ==
    LET flagged == [s EXCEPT !.mbHasRow = FALSE, !.mbDone = FALSE, !.bindings = AllNull]
    IN [s |-> sqlite3_reset(flagged), ret |-> ResetResult(flagged)]

\* int StatementExecutor::tryReset() noexcept
tryReset(s) ==
    LET flagged == [s EXCEPT !.mbHasRow = FALSE, !.mbDone = FALSE]
    IN [s |-> sqlite3_reset(flagged), ret |-> ResetResult(flagged)]

\* void StatementExecutor::reset()
StatementExecutor_reset(s) ==
    LET t == tryReset(s) IN check("reset", s, t.s, t.ret)

\* tryExecuteStep without the mbDone guard
tryExecuteStep_noGuard(s, r, c) ==
    LET n == sqlite3_step(s, r, c)
    IN [s |-> IF SQLITE_ROW = r
              THEN [n EXCEPT !.mbHasRow = TRUE]
              ELSE [n EXCEPT !.mbHasRow = FALSE, !.mbDone = (SQLITE_DONE = r)],
        ret |-> r, steps |-> 1]

\* tryExecuteStep that forgets to clear mbHasRow when no row came
tryExecuteStep_keepsRow(s, r, c) ==
    IF s.mbDone
    THEN [s |-> s, ret |-> SQLITE_MISUSE, steps |-> 0]
    ELSE LET n == sqlite3_step(s, r, c)
         IN [s |-> IF SQLITE_ROW = r
                   THEN [n EXCEPT !.mbHasRow = TRUE]
                   ELSE [n EXCEPT !.mbDone = (SQLITE_DONE = r)],
             ret |-> r, steps |-> 1]

\* int StatementExecutor::tryExecuteStep() noexcept
tryExecuteStep(s, r, c) ==
    IF s.mbDone
    THEN [s |-> s, ret |-> SQLITE_MISUSE, steps |-> 0]
    ELSE LET n == sqlite3_step(s, r, c)
         IN [s |-> IF SQLITE_ROW = r
                   THEN [n EXCEPT !.mbHasRow = TRUE]
                   ELSE [n EXCEPT !.mbHasRow = FALSE, !.mbDone = (SQLITE_DONE = r)],
             ret |-> r, steps |-> 1]

\* an executeStep that reports every failure with the message-only exception
StatementExecutor_executeStep_sentinel(s, r, c) ==
    LET t == tryExecuteStep(s, r, c)
    IN IF (SQLITE_ROW # t.ret) /\ (SQLITE_DONE # t.ret)
       THEN Call(t.s, ExceptionMsg("executeStep", s, "Statement needs to be reseted", t.steps))
       ELSE Call(t.s, Returned("executeStep", s, t.s.mbHasRow, 0, t.steps))

\* bool StatementExecutor::executeStep()
StatementExecutor_executeStep(s, r, c) ==
    LET t == tryExecuteStep(s, r, c)
    IN IF (SQLITE_ROW # t.ret) /\ (SQLITE_DONE # t.ret)
       THEN IF t.ret = t.s.errcode
            THEN Call(t.s, ExceptionRet("executeStep", s, t.ret, "errmsg", t.steps))
            ELSE Call(t.s, ExceptionMsgRet("executeStep", s,
                                           "Statement needs to be reseted", t.ret, t.steps))
       ELSE Call(t.s, Returned("executeStep", s, t.s.mbHasRow, 0, t.steps))

\* exec that takes a row for a finished statement
StatementExecutor_exec_acceptsRow(s, r, c) ==
    LET t == tryExecuteStep(s, r, c)
    IN IF (SQLITE_DONE # t.ret) /\ (SQLITE_ROW # t.ret)
       THEN Call(t.s, ExceptionRet("exec", s, t.ret, "errmsg", t.steps))
       ELSE Call(t.s, Returned("exec", s, FALSE, t.s.changes, t.steps))

\* int StatementExecutor::exec()
StatementExecutor_exec(s, r, c) ==
    LET t == tryExecuteStep(s, r, c)
    IN IF SQLITE_DONE # t.ret
       THEN IF SQLITE_ROW = t.ret
            THEN Call(t.s, ExceptionMsg("exec", s,
                           "exec() does not expect results. Use executeStep.", t.steps))
            ELSE IF t.ret = t.s.errcode
            THEN Call(t.s, ExceptionRet("exec", s, t.ret, "errmsg", t.steps))
            ELSE Call(t.s, ExceptionMsgRet("exec", s,
                                           "Statement needs to be reseted", t.ret, t.steps))
       ELSE Call(t.s, Returned("exec", s, FALSE, t.s.changes, t.steps))

(***************************************************************************)
(* Statement (Statement.cpp): the revision that keeps mbOk/mbDone itself.  *)
(* mbOk is the field hasRow()/isOk() returns; it is mbHasRow here.         *)
(***************************************************************************)
\* void Statement::reset()
Statement_reset(s) ==
    LET flagged == [s EXCEPT !.mbHasRow = FALSE, !.mbDone = FALSE]
    IN check("reset", s, sqlite3_reset(flagged), ResetResult(flagged))

\* clearBindings that also resets the step state
Statement_clearBindings_resets(s) ==
    check("clearBindings", s,
          sqlite3_clear_bindings([s EXCEPT !.mbHasRow = FALSE, !.mbDone = FALSE]), SQLITE_OK)

\* void Statement::clearBindings()
Statement_clearBindings(s) ==
    check("clearBindings", s, sqlite3_clear_bindings(s), SQLITE_OK)

\* void Statement::bind(const int aIndex, ...)
Statement_bind(s, aIndex, aValue) ==
    check("bind", s, sqlite3_bind(s, aIndex, aValue), BindResult(s, aIndex))

\* bool Statement::executeStep()
Statement_executeStep(s, r, c) ==
    IF FALSE = s.mbDone
    THEN LET n == sqlite3_step(s, r, c)
         IN IF SQLITE_ROW = r
            THEN LET m == [n EXCEPT !.mbHasRow = TRUE]
                 IN Call(m, Returned("executeStep", s, m.mbHasRow, 0, 1))
            ELSE IF SQLITE_DONE = r
            THEN LET m == [n EXCEPT !.mbHasRow = FALSE, !.mbDone = TRUE]
                 IN Call(m, Returned("executeStep", s, m.mbHasRow, 0, 1))
            ELSE Call([n EXCEPT !.mbHasRow = FALSE, !.mbDone = FALSE],
                      ExceptionRet("executeStep", s, r, "errmsg", 1))
    ELSE Call(s, ExceptionMsg("executeStep", s, "Statement needs to be reseted.", 0))

\* int Statement::exec()
Statement_exec(s, r, c) ==
    IF FALSE = s.mbDone
    THEN LET n == sqlite3_step(s, r, c)
         IN IF SQLITE_DONE = r
            THEN LET m == [n EXCEPT !.mbHasRow = FALSE, !.mbDone = TRUE]
                 IN Call(m, Returned("exec", s, FALSE, m.changes, 1))
            ELSE IF SQLITE_ROW = r
            THEN Call([n EXCEPT !.mbHasRow = FALSE, !.mbDone = FALSE],
                      ExceptionMsg("exec", s,
                          "exec() does not expect results. Use executeStep.", 1))
            ELSE Call([n EXCEPT !.mbHasRow = FALSE, !.mbDone = FALSE],
                      ExceptionRet("exec", s, r, "errmsg", 1))
    ELSE Call(s, ExceptionMsg("exec", s, "Statement need to be reseted.", 0))

\* the name -> index map both revisions build from sqlite3_column_name
ColumnNamesMap(count) ==
    [nm \in {AllNames[i] : i \in 1..count} |->
        CHOOSE i \in 0..(count - 1) : AllNames[i + 1] = nm]

WithArg(call, a) == [call EXCEPT !.out.arg = a]
WithName(call, nm) == [call EXCEPT !.out.name = nm]

NoRowMsg == "No row to get a column from. executeStep() was not called, or returned false."

\* Column Statement::getColumn(const int aIndex)
Statement_getColumn(s, aIndex) ==
    WithArg(IF checkRow(s)
            THEN Call(s, ExceptionMsg("getColumn", s, NoRowMsg, 0))
            ELSE IF checkIndex(s, aIndex)
            THEN Call(s, ExceptionMsg("getColumn", s, "Column index out of range.", 0))
            ELSE Call(s, Returned("getColumn", s, FALSE, aIndex, 0)),
            aIndex)

\* Column Statement::getColumn(const char* apName)
Statement_getColumnByName(s, apName) ==
    WithName(IF checkRow(s)
             THEN Call(s, ExceptionMsg("getColumnByName", s, NoRowMsg, 0))
             ELSE LET m == IF DOMAIN s.mColumnNames = {}
                           THEN [s EXCEPT !.mColumnNames = ColumnNamesMap(s.mColumnCount)]
                           ELSE s
                  IN IF apName \notin DOMAIN m.mColumnNames
                     THEN Call(m, ExceptionMsg("getColumnByName", s, "Unknown column name.", 0))
                     ELSE Call(m, Returned("getColumnByName", s, FALSE,
                                           m.mColumnNames[apName], 0)),
             apName)

\* bool Statement::isColumnNull(const int aIndex) const; isNull is what
\* sqlite3_column_type reports for the column
Statement_isColumnNull(s, aIndex, isNull) ==
    WithArg(IF checkRow(s)
            THEN Call(s, ExceptionMsg("isColumnNull", s, NoRowMsg, 0))
            ELSE IF checkIndex(s, aIndex)
            THEN Call(s, ExceptionMsg("isColumnNull", s, "Column index out of range.", 0))
            ELSE Call(s, Returned("isColumnNull", s, isNull, 0, 0)),
            aIndex)

\* bool Statement::isColumnNull(const char* apName) const (declared in
\* Statement.h; its definition is not among the sources)
Statement_isColumnNullByName(s, apName, isNull) ==
    WithName(IF checkRow(s)
             THEN Call(s, ExceptionMsg("isColumnNullByName", s, NoRowMsg, 0))
             ELSE IF apName \notin DOMAIN ColumnNamesMap(s.mColumnCount)
             THEN Call(s, ExceptionMsg("isColumnNullByName", s, "Unknown column name.", 0))
             ELSE Call(s, Returned("isColumnNullByName", s, isNull, 0, 0)),
             apName)

(***************************************************************************)
(* The statement object: construction and the calls a user can make.       *)
(***************************************************************************)
\* Statement::Statement / StatementExecutor::StatementExecutor after a
\* successful sqlite3_prepare_v2; createColumnInfo() fills the name map at
\* a createColumnInfo whose loop stops one column early
createColumnInfo_skipsLast(s) ==
    [s EXCEPT !.mColumnCount = s.nCols,
              !.mColumnNames = ColumnNamesMap(IF s.nCols > 0 THEN s.nCols - 1 ELSE 0)]

\* void StatementExecutor::createColumnInfo(): mColumnCount =
\* sqlite3_column_count(...), then one map entry per column index below it
createColumnInfo(s) ==
    LET counted == [s EXCEPT !.mColumnCount = s.nCols]
    IN [counted EXCEPT !.mColumnNames = ColumnNamesMap(counted.mColumnCount)]

\* construction: Statement.cpp keeps the column count and fills the names
\* on first use; StatementExecutor's constructor runs createColumnInfo()
NewStatement(r, count, rows) ==
    LET prepared ==
    [rev |-> r, mbHasRow |-> FALSE, mbDone |-> FALSE,
     mColumnCount |-> IF r = "Statement" THEN count ELSE 0,
     mColumnNames |-> <<>>, nCols |-> count,
     nRows |-> rows, vm |-> "ready", cursor |-> 0, stepRc |-> SQLITE_OK,
     errcode |-> SQLITE_OK, changes |-> 0, bindings |-> AllNull,
     usedParams |-> NoParams, prevParams |-> NoParams, runs |-> "none",
     mCurrentStep |-> 0, stepCalls |-> 0]
    IN IF r = "StatementExecutor" THEN createColumnInfo(prepared) ELSE prepared

Constructed == Returned("construct", [mbHasRow |-> FALSE, mbDone |-> FALSE], FALSE, 0, 0)

reset(s) == IF s.rev = "Statement" THEN Statement_reset(s) ELSE StatementExecutor_reset(s)

executeStep(s, r, c) ==
    IF s.rev = "Statement" THEN Statement_executeStep(s, r, c)
    ELSE StatementExecutor_executeStep(s, r, c)

exec(s, r, c) ==
    IF s.rev = "Statement" THEN Statement_exec(s, r, c)
    ELSE StatementExecutor_exec(s, r, c)

Apply(call) == stmt' = call.s /\ outcome' = call.out /\ UNCHANGED <<ptr, txn, txnOutcome, bk, it>>

Reset == Apply(reset(stmt))

ClearBindings == Apply(Statement_clearBindings(stmt))

Bind == \E i \in 0..(NParams + 1), v \in Values : Apply(Statement_bind(stmt, i, v))

ExecuteStep ==
    \E r \in StepResults(stmt), c \in 0..MaxChanges : Apply(executeStep(stmt, r, c))

Exec ==
    \E r \in StepResults(stmt), c \in 0..MaxChanges : Apply(exec(stmt, r, c))

GetColumn == \E i \in (-1)..MaxCols : Apply(Statement_getColumn(stmt, i))

GetColumnByName ==
    \E nm \in {AllNames[i] : i \in 1..MaxCols} \cup {UnknownName} :
        Apply(Statement_getColumnByName(stmt, nm))

IsColumnNull ==
    \E i \in (-1)..MaxCols, b \in BOOLEAN : Apply(Statement_isColumnNull(stmt, i, b))

IsColumnNullByName ==
    \E nm \in {AllNames[i] : i \in 1..MaxCols} \cup {UnknownName}, b \in BOOLEAN :
        Apply(Statement_isColumnNullByName(stmt, nm, b))

Threads == {1, 2}
IdleThread == [pc |-> "idle", reg |-> 0, held |-> 0]
IdlePtr ==
    [mpStmt |-> "null", counter |-> "null", refCount |-> 0,
     holders |-> [h \in 1..MaxHolders |-> "none"],
     finalizeCalls |-> 0, lastOp |-> "none", lastKind |-> "none",
     threads |-> [t \in Threads |-> IdleThread], overlapped |-> FALSE, started |-> 0]
IdleTxn ==
    [alive |-> FALSE, mbCommited |-> FALSE, inTxn |-> FALSE, content |-> 0, saved |-> 0,
     atBegin |-> 0, commits |-> 0, commitsOk |-> 0, rollbacks |-> 0, nTxns |-> 0,
     ndebug |-> TRUE, aborted |-> FALSE]
IdleTxnOutcome ==
    [op |-> "none", threw |-> FALSE, sql |-> "", preCommited |-> FALSE, contentBefore |-> 0,
     caught |-> FALSE]
IdleBackup ==
    [dbOpen |-> FALSE, terminated |-> FALSE, backup |-> "none", remaining |-> 0,
     rc |-> SQLITE_OK, finishCalls |-> 0,
     build |-> "assert", stmts |-> 0, destroyed |-> FALSE, asserted |-> "no",
     out |-> [op |-> "none", threw |-> FALSE, ret |-> SQLITE_OK, xret |-> SQLITE_OK,
              code |-> NoCode, ext |-> NoCode, value |-> NoCode]]
Iterators == {1, 2}
NoRow == -1
NoIterator == [live |-> FALSE, mpRow |-> FALSE, mID |-> 0, clean |-> FALSE]
IdleRowsOut ==
    [op |-> "none", iter |-> 0, threw |-> FALSE, msg |-> "", code |-> SQLITE_OK,
     expired |-> FALSE, deref |-> FALSE, column |-> FALSE, arg |-> 0, name |-> "",
     rowID |-> 0, dataRow |-> NoRow, steps |-> 0, resetRet |-> SQLITE_OK,
     stepRet |-> SQLITE_OK, made |-> FALSE, atEnd |-> FALSE]
Handles == {1, 2}
NullHandle == 0
NoColumnIterator ==
    [live |-> FALSE, mpStatement |-> NullHandle, mRowID |-> 0, mID |-> 0, init |-> TRUE]
IdleColumnIterators ==
    [mCurrentStep |-> [h \in Handles |-> 0],
     iters |-> [k \in Iterators |-> NoColumnIterator],
     cmp |-> [op |-> "none", a |-> NoColumnIterator, b |-> NoColumnIterator,
              result |-> FALSE, defined |-> TRUE]]
IdleRows ==
    [stmtAlive |-> FALSE, useCount |-> 0, views |-> 0, finalizeCalls |-> 0,
     terminated |-> FALSE, iters |-> [k \in Iterators |-> NoIterator],
     row |-> [live |-> FALSE, mID |-> 0], out |-> IdleRowsOut,
     cols |-> IdleColumnIterators]

Init ==
    /\ \E r \in Revisions, count \in {0, MaxCols}, rows \in 0..MaxRows :
          /\ (count = 0 => rows = 0)
          /\ (rows > 0 => count = MaxCols)
          /\ stmt = NewStatement(r, count, rows)
    /\ outcome = Constructed
    /\ ptr = IdlePtr
    /\ txn = IdleTxn
    /\ txnOutcome = IdleTxnOutcome
    /\ bk = IdleBackup
    /\ it = IdleRows

Next ==
    \/ Reset
    \/ ClearBindings
    \/ Bind
    \/ ExecuteStep
    \/ Exec

Spec == Init /\ [][Next]_vars

(***************************************************************************)
(* The same statement, stepped and read through its column accessors.      *)
(***************************************************************************)
InitColumns ==
    /\ \E r \in Revisions, count \in 0..MaxCols, rows \in 0..MaxRows :
          /\ (count = 0 => rows = 0)
          /\ stmt = NewStatement(r, count, rows)
    /\ outcome = Constructed
    /\ ptr = IdlePtr
    /\ txn = IdleTxn
    /\ txnOutcome = IdleTxnOutcome
    /\ bk = IdleBackup
    /\ it = IdleRows

NextColumns ==
    \/ Reset
    \/ ExecuteStep
    \/ Exec
    \/ GetColumn
    \/ GetColumnByName
    \/ IsColumnNull
    \/ IsColumnNullByName

SpecColumns == InitColumns /\ [][NextColumns]_vars

(***************************************************************************)
(* Properties of the statement state machine.                              *)
(***************************************************************************)
StepOps == {"executeStep", "exec"}

\* C2: on a statement that is Done (no reset since), executeStep() and exec()
\* throw, make no native step, and leave the statement Done with the native
\* statement where its finishing step left it.
C2_SteppingDoneThrows ==
    (outcome.op \in StepOps /\ outcome.pre = "Done") =>
        /\ outcome.threw
        /\ outcome.steps = 0
        /\ stmt.mbDone /\ ~stmt.mbHasRow
        /\ stmt.vm = "halt" /\ stmt.stepRc = SQLITE_DONE

C2_Witness ==
    /\ outcome.op = "executeStep" /\ outcome.pre = "Done" /\ outcome.threw
    /\ stmt.rev = "StatementExecutor" /\ stmt.nRows = MaxRows

\* C5: from Ready or HasRow, executeStep() makes exactly one native step; a
\* row gives true and HasRow, the end gives false and Done, anything else
\* throws; a returned value equals hasRow() after the call.
C5_ExecuteStepFollowsNative ==
    (outcome.op = "executeStep" /\ outcome.pre \in {"Ready", "HasRow"}) =>
        /\ outcome.steps = 1
        /\ stmt.stepRc = SQLITE_ROW =>
              ~outcome.threw /\ outcome.flag = TRUE /\ StateOf(stmt) = "HasRow"
        /\ stmt.stepRc = SQLITE_DONE =>
              ~outcome.threw /\ outcome.flag = FALSE /\ StateOf(stmt) = "Done"
        /\ stmt.stepRc \notin {SQLITE_ROW, SQLITE_DONE} => outcome.threw
        /\ ~outcome.threw => outcome.flag = stmt.mbHasRow

C5_Witness ==
    /\ outcome.op = "executeStep" /\ outcome.pre = "HasRow"
    /\ ~outcome.threw /\ outcome.flag = FALSE /\ StateOf(stmt) = "Done"

\* C6: after reset(), whatever the state before and whether or not it threw,
\* the statement is Ready: hasRow() and isDone() are false.
C6_ResetGivesReady ==
    outcome.op = "reset" => ~stmt.mbHasRow /\ ~stmt.mbDone /\ stmt.vm = "ready"

C6_Witness == outcome.op = "reset" /\ outcome.pre = "Done" /\ ~outcome.threw

C6_WitnessThrown == outcome.op = "reset" /\ outcome.threw /\ ~stmt.mbDone

\* C8: exec() on a statement that is not Done makes one native step; a row
\* makes it throw, the end makes it return the connection's change count and
\* enter Done, any other result is thrown with that result as its code.
C8_ExecFollowsNative ==
    (outcome.op = "exec" /\ outcome.pre # "Done") =>
        /\ outcome.steps = 1
        /\ stmt.stepRc = SQLITE_ROW => outcome.threw
        /\ stmt.stepRc = SQLITE_DONE =>
              ~outcome.threw /\ outcome.value = stmt.changes /\ StateOf(stmt) = "Done"
        /\ stmt.stepRc \notin {SQLITE_ROW, SQLITE_DONE} =>
              outcome.threw /\ outcome.code = stmt.stepRc /\ outcome.msg = "errmsg"

C8_Witness ==
    /\ outcome.op = "exec" /\ outcome.pre = "Ready" /\ ~outcome.threw
    /\ outcome.value = MaxChanges /\ stmt.mbDone

C8_WitnessRow == outcome.op = "exec" /\ outcome.threw /\ stmt.stepRc = SQLITE_ROW

\* C9: while no binding is changed, the parameter values stay those the last
\* execution read, across reset() and any other call, and an execution that
\* follows another one reads the same values as that one.
C9_ResetKeepsBindings ==
    /\ stmt.runs # "none" => stmt.bindings = stmt.usedParams
    /\ stmt.runs = "again" => stmt.usedParams = stmt.prevParams

C9_Witness ==
    /\ outcome.op = "exec" /\ outcome.pre = "Ready" /\ ~outcome.threw
    /\ stmt.runs = "again" /\ stmt.nRows = 0
    /\ \A i \in 1..NParams : stmt.usedParams[i] # NULL

\* C10: a clearBindings() step sets every parameter to NULL, returns
\* normally, and leaves every other field of the statement and of the native
\* statement as it was (the step state included).
C10_ClearBindingsFrame ==
    [][outcome'.op = "clearBindings" =>
          /\ ~outcome'.threw
          /\ \A i \in 1..NParams : stmt'.bindings[i] = NULL
          /\ stmt' = [stmt EXCEPT !.bindings = AllNull, !.usedParams = NoParams,
                                  !.prevParams = NoParams, !.runs = "none"]]_vars

C10_Witness ==
    /\ outcome.op = "clearBindings" /\ outcome.pre = "HasRow"
    /\ stmt.mbHasRow /\ stmt.bindings = AllNull

\* C7: getColumn(index) and isColumnNull(index) return exactly when the
\* statement is in HasRow and 0 <= index < column count, and throw otherwise;
\* the by-name forms throw outside HasRow and for a name that is no column.
C7_ColumnAccessGuarded ==
    /\ outcome.op \in {"getColumn", "isColumnNull"} =>
          (~outcome.threw <=>
              (outcome.pre = "HasRow" /\ 0 <= outcome.arg /\ outcome.arg < stmt.mColumnCount))
    /\ outcome.op \in {"getColumnByName", "isColumnNullByName"} =>
          /\ outcome.pre # "HasRow" => outcome.threw
          /\ outcome.name \notin {AllNames[i] : i \in 1..stmt.mColumnCount} => outcome.threw
    /\ (outcome.op = "getColumn" /\ ~outcome.threw) => outcome.value = outcome.arg
    /\ (outcome.op = "getColumnByName" /\ ~outcome.threw) =>
          AllNames[outcome.value + 1] = outcome.name

C7_Witness ==
    /\ outcome.op = "getColumn" /\ ~outcome.threw
    /\ outcome.arg = MaxCols - 1 /\ outcome.pre = "HasRow"

C7_WitnessUnknownName ==
    /\ outcome.op = "getColumnByName" /\ outcome.threw
    /\ outcome.pre = "HasRow" /\ outcome.name = UnknownName

(***************************************************************************)
(* Every operation of the statement: stepping, binding and column reads.   *)
(***************************************************************************)
InitStatement ==
    /\ \E r \in Revisions, count \in {0, MaxCols}, rows \in {0, MaxRows} :
          /\ (count = 0 => rows = 0)
          /\ stmt = NewStatement(r, count, rows)
    /\ outcome = Constructed
    /\ ptr = IdlePtr
    /\ txn = IdleTxn
    /\ txnOutcome = IdleTxnOutcome
    /\ bk = IdleBackup
    /\ it = IdleRows

NextStatement ==
    \/ Reset
    \/ ClearBindings
    \/ Bind
    \/ ExecuteStep
    \/ Exec
    \/ GetColumn
    \/ GetColumnByName
    \/ IsColumnNull
    \/ IsColumnNullByName

SpecStatement == InitStatement /\ [][NextStatement]_vars

\* C28: hasRow and done are never both true: not after construction and not
\* after any sequence of executeStep, exec, reset, clearBindings, bind and
\* column reads, returning or throwing; a current row also means the native
\* statement is on a row, and done that it has finished.
C28_NeverRowAndDone ==
    /\ ~(stmt.mbHasRow /\ stmt.mbDone)
    /\ stmt.mbHasRow => stmt.vm = "run" /\ stmt.stepRc = SQLITE_ROW
    /\ stmt.mbDone => stmt.vm = "halt" /\ stmt.stepRc = SQLITE_DONE

\* the step after the last row: the row flag is dropped as done is set
C28_Witness ==
    /\ outcome.op = "executeStep" /\ outcome.pre = "HasRow" /\ ~outcome.threw
    /\ stmt.mbDone /\ ~stmt.mbHasRow /\ stmt.rev = "StatementExecutor"

\* a throwing call on a statement with a row
C28_WitnessThrown ==
    /\ outcome.op \in {"getColumn", "bind", "executeStep"} /\ outcome.threw
    /\ outcome.pre = "HasRow"

\* C29 as stated: when exec() throws because the native step returned a row,
\* hasRow() and isDone() are false afterwards and a getColumn(0) called next
\* throws.
C29_ExecOnRowLeavesNoRow ==
    (outcome.op = "exec" /\ outcome.threw /\ outcome.steps = 1
        /\ stmt.stepRc = SQLITE_ROW) =>
       /\ ~stmt.mbHasRow /\ ~stmt.mbDone
       /\ Statement_getColumn(stmt, 0).out.threw

(***************************************************************************)
(* Statement::Ptr (Statement.cpp): the reference-counted handle shared by  *)
(* a Statement and the Columns copied from it.                             *)
(*   mpStmt    native statement: "null" | "live" | "finalized"             *)
(*   counter   the heap cell mpRefCount points to: "null" | "live" |       *)
(*             "deleted"                                                   *)
(*   refCount  *mpRefCount (unsigned int)                                  *)
(*   holders   the objects that own a Ptr member: holder -> kind           *)
(*   finalizeCalls   sqlite3_finalize calls made on the native statement   *)
(***************************************************************************)
\* unsigned int arithmetic on the counter: 0 - 1 wraps to the largest value
\* (the largest integer of the checker stands for 2^32 - 1; the upward wrap
\* needs 2^32 holders and is out of reach)
UIntMax == 2^30 + (2^30 - 1)
UIntWrap(n) == IF n < 0 THEN UIntMax ELSE n

Live(p) == {h \in DOMAIN p.holders : p.holders[h] # "none"}

\* Statement::Ptr::Ptr(sqlite3*, std::string&): prepareOk is whether
\* sqlite3_prepare_v2 returned SQLITE_OK; on failure it throws and no holder
\* comes to exist
Ptr_ctor(p, h, prepareOk) ==
    IF prepareOk
    THEN [p EXCEPT !.mpStmt = "live", !.counter = "live", !.refCount = 1,
                   !.holders[h] = "Statement",
                   !.lastOp = "ctor", !.lastKind = "Statement"]
    ELSE [p EXCEPT !.lastOp = "ctorThrew", !.lastKind = "Statement"]

\* a copy constructor that forgets the increment
Ptr_copy_noIncrement(p, h, kind) ==
    [p EXCEPT !.holders[h] = kind, !.lastOp = "copy", !.lastKind = kind]

\* Statement::Ptr::Ptr(const Statement::Ptr&), run for the Ptr member of the
\* new holder h
Ptr_copy(p, h, kind) ==
    [p EXCEPT !.refCount = UIntWrap(@ + 1),
              !.holders[h] = kind, !.lastOp = "copy", !.lastKind = kind]

\* a destructor that finalizes whenever a Statement is destroyed
Ptr_dtor_eager(p, h) ==
    LET q == [p EXCEPT !.refCount = UIntWrap(@ - 1), !.holders[h] = "none",
                       !.lastOp = "dtor", !.lastKind = p.holders[h]]
    IN IF 0 = q.refCount \/ p.holders[h] = "Statement"
       THEN [q EXCEPT !.finalizeCalls = @ + 1, !.mpStmt = "finalized",
                      !.counter = "deleted"]
       ELSE q

\* Statement::Ptr::~Ptr(), run for the Ptr member of holder h
Ptr_dtor(p, h) ==
    LET q == [p EXCEPT !.refCount = UIntWrap(@ - 1), !.holders[h] = "none",
                       !.lastOp = "dtor", !.lastKind = p.holders[h]]
    IN IF 0 = q.refCount
       THEN [q EXCEPT !.finalizeCalls = @ + 1, !.mpStmt = "finalized",
                      !.counter = "deleted"]
       ELSE q

\* Column Database::execAndGet(const char* apQuery): the temporary Statement
\* hq, the Column hc it returns when the step gave a row
Database_execAndGet(p, hq, hc, prepareOk, gotRow) ==
    LET query == Ptr_ctor(p, hq, prepareOk)
    IN IF ~prepareOk THEN query
       ELSE IF gotRow THEN Ptr_dtor(Ptr_copy(query, hc, "Column"), hq)
       ELSE Ptr_dtor(query, hq)

Free(p) == {h \in DOMAIN p.holders : p.holders[h] = "none"}

ApplyPtr(q) == ptr' = q /\ UNCHANGED <<stmt, outcome, txn, txnOutcome, bk, it>>

\* Statement::Statement(Database&, ...)
PtrPrepare ==
    /\ ptr.lastOp = "none"
    /\ \E ok \in BOOLEAN : ApplyPtr(Ptr_ctor(ptr, 1, ok))

PtrExecAndGet ==
    /\ ptr.lastOp = "none"
    /\ \E ok \in BOOLEAN, row \in BOOLEAN :
          ApplyPtr(Database_execAndGet(ptr, 1, 2, ok, row))

\* Statement::Statement(Statement&&): mStmtPtr(other.mStmtPtr)
PtrMoveStatement ==
    \E src \in Live(ptr), h \in Free(ptr) :
        /\ ptr.holders[src] = "Statement"
        /\ ptr.counter = "live"
        /\ ApplyPtr(Ptr_copy(ptr, h, "Statement"))

\* Statement::getColumn: Column(mStmtPtr, aIndex)
PtrGetColumn ==
    \E src \in Live(ptr), h \in Free(ptr) :
        /\ ptr.holders[src] = "Statement"
        /\ ptr.counter = "live"
        /\ ApplyPtr(Ptr_copy(ptr, h, "Column"))

\* Column's copy constructor copies its mStmtPtr member
PtrCopyColumn ==
    \E src \in Live(ptr), h \in Free(ptr) :
        /\ ptr.holders[src] = "Column"
        /\ ptr.counter = "live"
        /\ ApplyPtr(Ptr_copy(ptr, h, "Column"))

\* Statement::~Statement / Column::~Column destroy the Ptr member
PtrDestroy ==
    \E h \in Live(ptr) :
        /\ ptr.counter = "live"
        /\ ApplyPtr(Ptr_dtor(ptr, h))

InitPtr ==
    /\ stmt = NewStatement("Statement", 0, 0)
    /\ outcome = Constructed
    /\ ptr = IdlePtr
    /\ txn = IdleTxn
    /\ txnOutcome = IdleTxnOutcome
    /\ bk = IdleBackup
    /\ it = IdleRows

NextPtr ==
    \/ PtrPrepare
    \/ PtrExecAndGet
    \/ PtrMoveStatement
    \/ PtrGetColumn
    \/ PtrCopyColumn
    \/ PtrDestroy

SpecPtr == InitPtr /\ [][NextPtr]_vars

\* C1: the native statement is finalized exactly once, when the last holder
\* of the handle is destroyed: not while a holder is alive, not twice, and
\* the counter equals the number of live holders until then.
C1_FinalizedOnceByLastHolder ==
    /\ Live(ptr) # {} =>
          /\ ptr.mpStmt = "live" /\ ptr.finalizeCalls = 0
          /\ ptr.counter = "live" /\ ptr.refCount = Cardinality(Live(ptr))
    /\ (Live(ptr) = {} /\ ptr.lastOp \in {"dtor", "copy", "ctor"}) =>
          ptr.mpStmt = "finalized" /\ ptr.finalizeCalls = 1
    /\ ptr.lastOp \in {"none", "ctorThrew"} =>
          ptr.mpStmt = "null" /\ ptr.finalizeCalls = 0 /\ Live(ptr) = {}

\* the last holder to go was a Column that outlived every Statement
C1_Witness ==
    /\ ptr.lastOp = "dtor" /\ ptr.lastKind = "Column"
    /\ Live(ptr) = {} /\ ptr.finalizeCalls = 1

\* the Column of execAndGet is alive after its temporary Statement is gone
C1_WitnessExecAndGet ==
    /\ ptr.holders[1] = "none" /\ ptr.holders[2] = "Column"
    /\ Cardinality(Live(ptr)) = 1 /\ ptr.mpStmt = "live"

(***************************************************************************)
(* Transaction (Transaction.cpp) over Database::exec, and the connection's *)
(* transaction state.                                                      *)
(*   inTxn    the connection has an open transaction                       *)
(*   content  database content the connection sees (rows written)          *)
(*   saved    content when the open transaction began                      *)
(*   atBegin, commits, commitsOk, rollbacks   for the live (or last)       *)
(*            Transaction: content when its BEGIN ran, COMMITs it issued,  *)
(*            COMMITs that succeeded, ROLLBACKs its destructor issued      *)
(***************************************************************************)
\* sqlite3_exec of one statement; fail is an engine-side failure (busy,
\* constraint, syntax).  BEGIN inside a transaction and COMMIT/ROLLBACK
\* outside one are errors; a failed statement leaves the transaction open;
\* ROLLBACK of an open transaction restores the content BEGIN saw.
sqlite3_exec_ok(t, sql, fail) ==
    CASE sql = "BEGIN" -> ~t.inTxn /\ ~fail
      [] sql = "COMMIT" -> t.inTxn /\ ~fail
      [] sql = "ROLLBACK" -> t.inTxn
      [] OTHER -> ~fail

sqlite3_exec(t, sql, fail) ==
    IF ~sqlite3_exec_ok(t, sql, fail) THEN t
    ELSE CASE sql = "BEGIN" -> [t EXCEPT !.inTxn = TRUE, !.saved = t.content]
           [] sql = "COMMIT" -> [t EXCEPT !.inTxn = FALSE]
           [] sql = "ROLLBACK" -> [t EXCEPT !.inTxn = FALSE, !.content = t.saved]
           [] OTHER -> [t EXCEPT !.content = @ + 1]

\* int Database::exec(const char* apQueries): sqlite3_exec, then check(ret)
Database_exec(t, sql, fail) ==
    [t |-> sqlite3_exec(t, sql, fail), threw |-> ~sqlite3_exec_ok(t, sql, fail)]

TxnOut(op, t, threw, sql) ==
    [op |-> op, threw |-> threw, sql |-> sql, preCommited |-> t.mbCommited,
     contentBefore |-> t.content, caught |-> FALSE]

TxnCall(t, out) == [t |-> t, out |-> out]

\* Transaction::Transaction(Database&): when BEGIN throws no object exists
Transaction_ctor(t, fail) ==
    LET fresh == [t EXCEPT !.mbCommited = FALSE, !.commits = 0, !.commitsOk = 0,
                           !.rollbacks = 0, !.atBegin = t.content, !.nTxns = @ + 1]
        e == Database_exec(fresh, "BEGIN", fail)
    IN TxnCall([e.t EXCEPT !.alive = ~e.threw], TxnOut("Transaction", fresh, e.threw, "BEGIN"))

\* a destructor that rolls back whatever the flag says
Transaction_dtor_always(t) ==
    LET e == Database_exec(t, "ROLLBACK", FALSE)
    IN TxnCall([e.t EXCEPT !.alive = FALSE, !.rollbacks = @ + 1],
               TxnOut("~Transaction", t, FALSE, "ROLLBACK"))

\* a destructor without the try/catch around the ROLLBACK
Transaction_dtor_rethrows(t) ==
    IF FALSE = t.mbCommited
    THEN LET e == Database_exec(t, "ROLLBACK", FALSE)
         IN TxnCall([e.t EXCEPT !.alive = FALSE, !.rollbacks = @ + 1],
                    TxnOut("~Transaction", t, e.threw, "ROLLBACK"))
    ELSE TxnCall([t EXCEPT !.alive = FALSE], TxnOut("~Transaction", t, FALSE, ""))

\* Transaction::~Transaction(): the exception of a failed ROLLBACK is caught;
\* SQLITE_CPP_ASSERT(false) in the handler is assert(false) unless NDEBUG is
\* defined, and then the process aborts
Transaction_dtor(t) ==
    IF FALSE = t.mbCommited
    THEN LET e == Database_exec(t, "ROLLBACK", FALSE)
         IN TxnCall([e.t EXCEPT !.alive = FALSE, !.rollbacks = @ + 1,
                                !.aborted = e.threw /\ ~t.ndebug],
                    [TxnOut("~Transaction", t, FALSE, "ROLLBACK") EXCEPT !.caught = e.threw])
    ELSE TxnCall([t EXCEPT !.alive = FALSE], TxnOut("~Transaction", t, FALSE, ""))

\* a commit that does not look at the flag
Transaction_commit_noCheck(t, fail) ==
    LET e == Database_exec([t EXCEPT !.commits = @ + 1], "COMMIT", fail)
    IN IF e.threw
       THEN TxnCall(e.t, TxnOut("commit", t, TRUE, "COMMIT"))
       ELSE TxnCall([e.t EXCEPT !.mbCommited = TRUE, !.commitsOk = @ + 1],
                    TxnOut("commit", t, FALSE, "COMMIT"))

\* void Transaction::commit()
Transaction_commit(t, fail) ==
    IF FALSE = t.mbCommited
    THEN LET e == Database_exec([t EXCEPT !.commits = @ + 1], "COMMIT", fail)
         IN IF e.threw
            THEN TxnCall(e.t, TxnOut("commit", t, TRUE, "COMMIT"))
            ELSE TxnCall([e.t EXCEPT !.mbCommited = TRUE, !.commitsOk = @ + 1],
                         TxnOut("commit", t, FALSE, "COMMIT"))
    ELSE TxnCall(t, TxnOut("commit", t, TRUE, ""))

\* db.exec("INSERT ...") by the user, inside or outside a Transaction scope
Database_execInsert(t, fail) ==
    LET e == Database_exec(t, "INSERT", fail)
    IN TxnCall(e.t, TxnOut("exec", t, e.threw, "INSERT"))

ApplyTxn(call) ==
    txn' = call.t /\ txnOutcome' = call.out /\ UNCHANGED <<stmt, outcome, ptr, bk, it>>

TxnConstruct ==
    /\ ~txn.alive
    /\ ~txn.aborted
    /\ txn.nTxns < MaxTxns
    /\ \E fail \in BOOLEAN : ApplyTxn(Transaction_ctor(txn, fail))

TxnCommit ==
    /\ txn.alive
    /\ ~txn.aborted
    /\ txn.commits < MaxCommits
    /\ \E fail \in BOOLEAN : ApplyTxn(Transaction_commit(txn, fail))

TxnWrite ==
    /\ txn.content < MaxWrites
    /\ ~txn.aborted
    /\ \E fail \in BOOLEAN : ApplyTxn(Database_execInsert(txn, fail))

\* the scope of the Transaction is left, normally or by an exception
TxnDestroy ==
    /\ txn.alive
    /\ ~txn.aborted
    /\ ApplyTxn(Transaction_dtor(txn))

InitTxn ==
    /\ stmt = NewStatement("Statement", 0, 0)
    /\ outcome = Constructed
    /\ ptr = IdlePtr
    /\ txn = IdleTxn
    /\ txnOutcome = IdleTxnOutcome
    /\ bk = IdleBackup
    /\ it = IdleRows

NextTxn ==
    \/ TxnConstruct
    \/ TxnCommit
    \/ TxnWrite
    \/ TxnDestroy

SpecTxn == InitTxn /\ [][NextTxn]_vars

\* C3: the destructor issues ROLLBACK exactly when no commit() of the
\* Transaction returned normally; then the content is again what it was at
\* BEGIN, and after a successful commit() the destructor issues nothing and
\* the content stays what it was before the scope was left.
C3_RollbackUnlessCommitted ==
    /\ txn.alive => txn.rollbacks = 0
    /\ txnOutcome.op = "~Transaction" =>
          /\ txn.rollbacks = (IF txn.commitsOk = 0 THEN 1 ELSE 0)
          /\ (txnOutcome.sql = "ROLLBACK") <=> (txn.commitsOk = 0)
          /\ txn.commitsOk = 0 => txn.content = txn.atBegin
          /\ txn.commitsOk # 0 => txn.content = txnOutcome.contentBefore
          /\ ~txn.inTxn /\ ~txnOutcome.threw

\* a scope with writes and a failed commit() is left: the writes are gone
C3_Witness ==
    /\ txnOutcome.op = "~Transaction" /\ txn.commits = 1 /\ txn.commitsOk = 0
    /\ txnOutcome.contentBefore > txn.atBegin /\ txn.content = txn.atBegin

\* a committed scope with writes is left: the writes stay
C3_WitnessCommitted ==
    /\ txnOutcome.op = "~Transaction" /\ txn.commitsOk = 1
    /\ txn.content > txn.atBegin

\* C4 as stated: a Transaction issues COMMIT at most once.
C4_CommitIssuedAtMostOnce == txn.commits <= 1

\* C4 amended: at most one COMMIT of a Transaction succeeds; a commit() that
\* finds the flag clear issues COMMIT and sets the flag exactly when COMMIT
\* succeeded; a commit() that finds the flag set throws and issues no SQL.
C4_CommitSucceedsAtMostOnce ==
    /\ txn.commitsOk <= 1
    /\ txn.alive => (txn.mbCommited <=> txn.commitsOk = 1)
    /\ txnOutcome.op = "commit" =>
          /\ txnOutcome.preCommited => (txnOutcome.threw /\ txnOutcome.sql = "")
          /\ ~txnOutcome.preCommited =>
                (txnOutcome.sql = "COMMIT" /\ (txn.mbCommited <=> ~txnOutcome.threw))

\* a commit() whose COMMIT failed is called again and succeeds: COMMIT was
\* issued twice by the one Transaction
C4_Witness ==
    /\ txnOutcome.op = "commit" /\ ~txnOutcome.preCommited /\ ~txnOutcome.threw
    /\ txn.commits = 2 /\ txn.commitsOk = 1 /\ txn.mbCommited

\* commit() called again after a successful commit()
C4_WitnessSecondCommit ==
    /\ txnOutcome.op = "commit" /\ txnOutcome.preCommited /\ txnOutcome.threw
    /\ txn.commits = 1 /\ txn.commitsOk = 1

(***************************************************************************)
(* Transaction destructor when its ROLLBACK fails.  The connection is the  *)
(* caller's too: a db.exec("ROLLBACK") inside the scope closes the native  *)
(* transaction, and the destructor's own ROLLBACK then fails.  The build   *)
(* (NDEBUG or not) is chosen at start.                                     *)
(***************************************************************************)
\* db.exec("ROLLBACK") by the user
Database_execRollback(t) ==
    LET e == Database_exec(t, "ROLLBACK", FALSE)
    IN TxnCall(e.t, TxnOut("exec", t, e.threw, "ROLLBACK"))

TxnExecRollback ==
    /\ ~txn.aborted
    /\ ApplyTxn(Database_execRollback(txn))

InitTxnUnwind ==
    /\ stmt = NewStatement("Statement", 0, 0)
    /\ outcome = Constructed
    /\ ptr = IdlePtr
    /\ \E b \in BOOLEAN : txn = [IdleTxn EXCEPT !.ndebug = b]
    /\ txnOutcome = IdleTxnOutcome
    /\ bk = IdleBackup
    /\ it = IdleRows

NextTxnUnwind ==
    \/ TxnConstruct
    \/ TxnCommit
    \/ TxnWrite
    \/ TxnExecRollback
    \/ TxnDestroy

SpecTxnUnwind == InitTxnUnwind /\ [][NextTxnUnwind]_vars

\* C17: no exception leaves the Transaction destructor; a failure of the
\* ROLLBACK it issues is caught there, which happens exactly when the native
\* transaction was already closed, and only a build with assertions enabled
\* stops the process in the handler.
C17_DtorNeverThrows ==
    /\ txnOutcome.op = "~Transaction" =>
          /\ ~txnOutcome.threw
          /\ ~txn.alive
          /\ txnOutcome.caught => (txnOutcome.sql = "ROLLBACK" /\ ~txnOutcome.preCommited)
          /\ txn.aborted <=> (txnOutcome.caught /\ ~txn.ndebug)
    /\ txnOutcome.op # "~Transaction" => ~txnOutcome.caught

\* the scope is left after the user's ROLLBACK closed the native
\* transaction: the destructor's ROLLBACK failed and nothing was thrown
C17_Witness ==
    /\ txnOutcome.op = "~Transaction" /\ txnOutcome.caught /\ ~txnOutcome.threw
    /\ txn.rollbacks = 1 /\ txn.ndebug

\* the same in a build with assertions: the handler's assertion fires
C17_WitnessAssert ==
    /\ txnOutcome.op = "~Transaction" /\ txnOutcome.caught /\ txn.aborted

(***************************************************************************)
(* Database (Database.cpp) and Backup (Backup.cpp).                        *)
(*   dbOpen      the destination Database object exists                    *)
(*   terminated  an exception left a noexcept function: std::terminate     *)
(*   backup      "none", "live" (mpSQLiteBackup non-NULL) or "finished"    *)
(*   remaining   source pages still to copy; rc: the native backup's       *)
(*               sticky result                                             *)
(*   build       how SQLITECPP_ASSERT is compiled: "assert" (assert()),    *)
(*               "ndebug" (assert() with NDEBUG) or "handler"              *)
(*               (SQLITECPP_ENABLE_ASSERT_HANDLER: assertion_failed)       *)
(*   stmts       statements prepared on the connection, not yet finalized  *)
(*   destroyed   the Database object was destroyed                         *)
(*   asserted    what the destructor's assertion did: "no", "reported"     *)
(*               (the handler ran and returned) or "stopped" (abort)       *)
(*   out         last call: native return code ret, the connection's       *)
(*               extended code xret, and what the caller got               *)
(***************************************************************************)
\* sqlite3_extended_errcode after a call returned ret: ret with or without
\* an extension in the bits above the low byte
ExtendedCodes(ret) == {ret, ret + 256}

BkReturned(op, ret, xret, value) ==
    [op |-> op, threw |-> FALSE, ret |-> ret, xret |-> xret,
     code |-> NoCode, ext |-> NoCode, value |-> value]

\* throw SQLite::Exception(const std::string&): mErrcode(-1), mExtendedErrcode(-1)
Exception_string(op, ret, xret) ==
    [op |-> op, threw |-> TRUE, ret |-> ret, xret |-> xret,
     code |-> NoCode, ext |-> NoCode, value |-> NoCode]

BkCall(b, out) == [b EXCEPT !.out = out]

\* inline void Database::check(const int aRet) const
Database_check(op, ret, xret, value) ==
    IF SQLITE_OK # ret
    THEN Exception_string(op, ret, xret)
    ELSE BkReturned(op, ret, xret, value)

\* void Database::setBusyTimeout(const int) noexcept: check(ret) throws
\* inside a noexcept function, which ends the process
Database_setBusyTimeout(b, ret, xret) ==
    LET out == Database_check("Database::setBusyTimeout", ret, xret, 0)
    IN BkCall([b EXCEPT !.terminated = out.threw], [out EXCEPT !.threw = FALSE])

\* Database::Database(apFilename, aFlags, aBusyTimeoutMs, apVfs)
Database_ctor(b, ret, xret, aBusyTimeoutMs, tret) ==
    IF SQLITE_OK # ret
    THEN BkCall(b, Exception_string("Database::Database", ret, xret))
    ELSE IF aBusyTimeoutMs > 0
         THEN LET s == Database_setBusyTimeout([b EXCEPT !.dbOpen = TRUE], tret, tret)
              IN BkCall(s, [s.out EXCEPT !.op = "Database::Database"])
         ELSE BkCall([b EXCEPT !.dbOpen = TRUE],
                     BkReturned("Database::Database", ret, xret, 0))

\* int Database::exec(const char*): check(ret), then sqlite3_changes
Database_exec_checked(b, ret, xret, changes) ==
    BkCall(b, Database_check("Database::exec", ret, xret, changes))

Builds == {"assert", "ndebug", "handler"}

\* SQLITECPP_ASSERT(expression, message): nothing when the expression holds
\* or assert() is compiled out; assert() aborts; the application's
\* assertion_failed handler returns (tests/Database_test.cpp) or ends the
\* process (examples/example1/main.cpp)
SQLITECPP_ASSERT(build, expression, handlerReturns) ==
    IF expression \/ build = "ndebug" THEN "no"
    ELSE IF build = "handler" /\ handlerReturns THEN "reported"
    ELSE "stopped"

\* sqlite3_close: SQLITE_BUSY, and the connection stays open, while a
\* prepared statement or a backup of the connection is unfinished
sqlite3_close(b) ==
    IF b.stmts > 0 \/ b.backup = "live" THEN SQLITE_BUSY ELSE SQLITE_OK

\* a destructor that passes the result of sqlite3_close to check()
Database_dtor_checks(b, handlerReturns) ==
    LET ret == sqlite3_close(b)
    IN BkCall([b EXCEPT !.dbOpen = FALSE, !.destroyed = TRUE],
              Database_check("Database::~Database", ret, ret, 0))

\* Database::~Database() noexcept
Database_dtor(b, handlerReturns) ==
    LET ret == sqlite3_close(b)
        a == SQLITECPP_ASSERT(b.build, SQLITE_OK = ret, handlerReturns)
    IN BkCall([b EXCEPT !.dbOpen = FALSE, !.destroyed = TRUE, !.asserted = a,
                        !.terminated = (a = "stopped")],
              BkReturned("Database::~Database", ret, ret, 0))

\* a Statement prepared on the connection: sqlite3_prepare_v2
StatementPtr_prepareStatement(b, ret) ==
    IF SQLITE_OK # ret
    THEN BkCall(b, [Exception_string("Statement::Statement", ret, ret)
                       EXCEPT !.code = ret, !.ext = ret])
    ELSE BkCall([b EXCEPT !.stmts = @ + 1],
                BkReturned("Statement::Statement", ret, ret, 0))

\* the last owner of a prepared statement is gone: sqlite3_finalize
sqlite3_finalize(b) ==
    BkCall([b EXCEPT !.stmts = @ - 1],
           BkReturned("sqlite3_finalize", SQLITE_OK, SQLITE_OK, 0))

\* Backup::Backup(Database&, Database&): sqlite3_backup_init returns NULL and
\* leaves the error code ret in the destination connection
Backup_ctor(b, ret, xret, pages) ==
    IF SQLITE_OK # ret
    THEN BkCall(b, Exception_string("Backup::Backup", ret, xret))
    ELSE BkCall([b EXCEPT !.backup = "live", !.remaining = pages, !.rc = SQLITE_OK],
                BkReturned("Backup::Backup", ret, xret, 0))

\* results sqlite3_backup_step can give: a fatal earlier result (DONE
\* included) is returned again; otherwise busy, locked, a failure, or
\* progress by aNumPage pages (all of them when negative)
BackupFailures == {SQLITE_ERROR, SQLITE_MISUSE}

Copied(b, aNumPage) ==
    IF aNumPage < 0 \/ aNumPage > b.remaining THEN b.remaining ELSE aNumPage

BackupStepResults(b, aNumPage) ==
    IF b.rc \notin {SQLITE_OK, SQLITE_BUSY, SQLITE_LOCKED} THEN {b.rc}
    ELSE {SQLITE_BUSY, SQLITE_LOCKED} \cup BackupFailures
         \cup {IF b.remaining - Copied(b, aNumPage) = 0 THEN SQLITE_DONE ELSE SQLITE_OK}

sqlite3_backup_step(b, aNumPage, res) ==
    [b EXCEPT !.rc = res,
              !.remaining = IF res \in {SQLITE_OK, SQLITE_DONE} /\ b.rc # SQLITE_DONE
                            THEN @ - Copied(b, aNumPage) ELSE @]

\* an executeStep that treats a busy database as an error
Backup_executeStep_throwsBusy(b, aNumPage, res, xret) ==
    LET n == sqlite3_backup_step(b, aNumPage, res)
    IN IF SQLITE_OK # res /\ SQLITE_DONE # res /\ SQLITE_LOCKED # res
       THEN BkCall(n, Exception_string("Backup::executeStep", res, xret))
       ELSE BkCall(n, BkReturned("Backup::executeStep", res, xret, res))

\* int Backup::executeStep(const int aNumPage)
Backup_executeStep(b, aNumPage, res, xret) ==
    LET n == sqlite3_backup_step(b, aNumPage, res)
    IN IF SQLITE_OK # res /\ SQLITE_DONE # res /\ SQLITE_BUSY # res /\ SQLITE_LOCKED # res
       THEN BkCall(n, Exception_string("Backup::executeStep", res, xret))
       ELSE BkCall(n, BkReturned("Backup::executeStep", res, xret, res))

\* a destructor that leaves the native backup handle unreleased
Backup_dtor_noFinish(b) ==
    BkCall([b EXCEPT !.backup = "finished"],
           BkReturned("Backup::~Backup", SQLITE_OK, SQLITE_OK, 0))

\* Backup::~Backup() noexcept
Backup_dtor(b) ==
    BkCall([b EXCEPT !.backup = "finished",
                     !.finishCalls = IF b.backup = "live" THEN @ + 1 ELSE @],
           BkReturned("Backup::~Backup", SQLITE_OK, SQLITE_OK, 0))

ApplyBk(b) ==
    bk' = b /\ UNCHANGED <<stmt, outcome, ptr, txn, txnOutcome, it>>

OpenResults == {SQLITE_OK} \cup NativeErrors
PageCounts == {-1, 1, 2}

DatabaseOpen ==
    /\ ~bk.dbOpen /\ ~bk.destroyed /\ ~bk.terminated
    /\ \E ret \in OpenResults, aBusyTimeoutMs \in {0, 1}, tret \in {SQLITE_OK, SQLITE_MISUSE} :
          \E xret \in ExtendedCodes(ret) :
             ApplyBk(Database_ctor(bk, ret, xret, aBusyTimeoutMs, tret))

DatabaseExec ==
    /\ bk.dbOpen /\ ~bk.terminated
    /\ \E ret \in OpenResults, changes \in 0..MaxChanges :
          \E xret \in ExtendedCodes(ret) :
             ApplyBk(Database_exec_checked(bk, ret, xret, changes))

DatabaseSetBusyTimeout ==
    /\ bk.dbOpen /\ ~bk.terminated
    /\ \E ret \in {SQLITE_OK, SQLITE_MISUSE} :
          ApplyBk(Database_setBusyTimeout(bk, ret, ret))

DatabaseDestroy ==
    /\ bk.dbOpen /\ ~bk.terminated
    /\ \E handlerReturns \in BOOLEAN : ApplyBk(Database_dtor(bk, handlerReturns))

StatementPrepare ==
    /\ bk.dbOpen /\ ~bk.terminated /\ bk.stmts < MaxStmts
    /\ \E ret \in {SQLITE_OK, SQLITE_ERROR} :
          ApplyBk(StatementPtr_prepareStatement(bk, ret))

StatementFinalize ==
    /\ bk.stmts > 0 /\ ~bk.terminated
    /\ ApplyBk(sqlite3_finalize(bk))

BackupInit ==
    /\ bk.dbOpen /\ ~bk.terminated /\ bk.backup = "none"
    /\ \E ret \in OpenResults, pages \in 0..MaxPages :
          \E xret \in ExtendedCodes(ret) :
             ApplyBk(Backup_ctor(bk, ret, xret, pages))

BackupExecuteStep ==
    /\ bk.backup = "live" /\ ~bk.terminated
    /\ \E aNumPage \in PageCounts :
          \E res \in BackupStepResults(bk, aNumPage) :
             \E xret \in ExtendedCodes(res) :
                ApplyBk(Backup_executeStep(bk, aNumPage, res, xret))

BackupDestroy ==
    /\ bk.backup = "live" /\ ~bk.terminated
    /\ ApplyBk(Backup_dtor(bk))

InitBackup ==
    /\ stmt = NewStatement("Statement", 0, 0)
    /\ outcome = Constructed
    /\ ptr = IdlePtr
    /\ txn = IdleTxn
    /\ txnOutcome = IdleTxnOutcome
    /\ \E b \in Builds : bk = [IdleBackup EXCEPT !.build = b]
    /\ it = IdleRows

NextBackup ==
    \/ DatabaseOpen
    \/ DatabaseExec
    \/ DatabaseSetBusyTimeout
    \/ DatabaseDestroy
    \/ StatementPrepare
    \/ StatementFinalize
    \/ BackupInit
    \/ BackupExecuteStep
    \/ BackupDestroy

SpecBackup == InitBackup /\ [][NextBackup]_vars

\* C20: Backup::executeStep returns, and returns the native result, exactly
\* when sqlite3_backup_step gave SQLITE_OK, SQLITE_DONE, SQLITE_BUSY or
\* SQLITE_LOCKED; for every other native result it throws.
C20_ExecuteStepThrowsExceptRetryable ==
    bk.out.op = "Backup::executeStep" =>
       /\ ~bk.out.threw <=> bk.out.ret \in {SQLITE_OK, SQLITE_DONE, SQLITE_BUSY, SQLITE_LOCKED}
       /\ ~bk.out.threw => bk.out.value = bk.out.ret

\* a step that found the database busy returned SQLITE_BUSY to the caller
C20_Witness ==
    /\ bk.out.op = "Backup::executeStep" /\ bk.out.ret = SQLITE_BUSY
    /\ ~bk.out.threw /\ bk.out.value = SQLITE_BUSY /\ bk.remaining > 0

\* a step with another native result threw
C20_WitnessThrown ==
    /\ bk.out.op = "Backup::executeStep" /\ bk.out.ret = SQLITE_ERROR /\ bk.out.threw

\* C18 as stated: an exception thrown because a native call of Database or
\* Backup returned a non-success code has that code as getErrorCode() and
\* the connection's extended code as getExtendedErrorCode(), never -1.
C18_NativeCodesCarried ==
    bk.out.threw =>
       /\ bk.out.code = bk.out.ret /\ bk.out.ext = bk.out.xret
       /\ bk.out.code # NoCode /\ bk.out.ext # NoCode

\* C21: a successfully constructed Backup releases its native handle exactly
\* once, at destruction and not before, whatever executeStep calls (throwing
\* ones included) came first; a Backup whose sqlite3_backup_init failed
\* throws from its constructor and never holds or releases a handle.
C21_HandleReleasedOnceAtDestruction ==
    /\ bk.finishCalls = (IF bk.backup = "finished" THEN 1 ELSE 0)
    /\ (bk.out.op = "Backup::Backup" /\ bk.out.threw) =>
          bk.backup = "none" /\ bk.finishCalls = 0
    /\ (bk.out.op = "Backup::executeStep" /\ bk.out.threw) =>
          bk.backup = "live" /\ bk.finishCalls = 0

\* a Backup destroyed after one of its steps failed for good
C21_Witness ==
    /\ bk.out.op = "Backup::~Backup" /\ bk.backup = "finished"
    /\ bk.rc \in BackupFailures /\ bk.finishCalls = 1

\* a constructor that threw left no handle behind
C21_WitnessInitFailed ==
    /\ bk.out.op = "Backup::Backup" /\ bk.out.threw
    /\ bk.backup = "none" /\ bk.finishCalls = 0

\* C22: destroying a Database never throws; when sqlite3_close fails because
\* a prepared statement (or backup) of the connection is unfinished, the
\* failure reaches the program only through SQLITECPP_ASSERT.
C22_DatabaseDtorNeverThrows ==
    bk.out.op = "Database::~Database" =>
       /\ ~bk.out.threw /\ bk.out.code = NoCode
       /\ bk.out.ret = SQLITE_BUSY <=> (bk.stmts > 0 \/ bk.backup = "live")
       /\ bk.out.ret = SQLITE_OK => bk.asserted = "no" /\ ~bk.terminated
       /\ bk.out.ret # SQLITE_OK =>
             bk.asserted = (IF bk.build = "ndebug" THEN "no"
                            ELSE IF bk.terminated THEN "stopped" ELSE "reported")
       /\ bk.terminated => bk.build # "ndebug"

\* a Database destroyed while one of its statements is not finalized: the
\* handler was told and no exception left the destructor
C22_Witness ==
    /\ bk.out.op = "Database::~Database" /\ bk.stmts > 0
    /\ bk.out.ret = SQLITE_BUSY /\ bk.asserted = "reported" /\ ~bk.out.threw

\* the same with assert(): the process is stopped
C22_WitnessAbort ==
    /\ bk.out.op = "Database::~Database" /\ bk.stmts > 0
    /\ bk.build = "assert" /\ bk.asserted = "stopped" /\ bk.terminated

(***************************************************************************)
(* Row, Row::ColumnIterator (Row.h / Row.cpp), Column and the RowIterator  *)
(* of StatementExecutor, over the statement object stmt.                   *)
(*   stmtAlive     the Statement (its StatementExecutor) exists            *)
(*   useCount      owners of the shared statement handle: the Statement    *)
(*                 and every Column / ColumnIterator (shared_ptr)          *)
(*   views         live Column and ColumnIterator objects                  *)
(*   finalizeCalls sqlite3_finalize calls made by the handle's deleter     *)
(*   terminated    an exception left a noexcept function                   *)
(*   iters[k]      RowIterator k: mpRow (weak reference to the executor,   *)
(*                 FALSE once reset), mID (also its Row's number), and     *)
(*                 clean: since its begin() no step failed natively and    *)
(*                 nothing else stepped or reset the statement             *)
(*   row           a Row the caller copied out of an iterator              *)
(*   out           the last call: the Row's number (rowID), whether the    *)
(*                 handle was expired, whether a Column was constructed    *)
(*                 and which row's data it reads (dataRow), whether the    *)
(*                 call went through a null handle (deref)                 *)
(***************************************************************************)
StaleMsg == "Row is used after destruction of SQLite Statement Object"

\* std::weak_ptr::expired() of a Row's / RowIterator's mpStatement
Expired(i) == i.useCount = 0

\* RowIterator::mpRow.expired(): reset by advance(), or the executor is gone
RowExpired(i, itr) == ~(itr.mpRow /\ i.stmtAlive)

\* the row sqlite3_column_* reads: the one the last step delivered, if any
CurrentRow(s) == IF s.vm = "run" THEN s.cursor - 1 ELSE NoRow

RowOut(op, i, mID) ==
    [IdleRowsOut EXCEPT !.op = op, !.expired = Expired(i), !.rowID = mID]

RowThrow(out, msg, code) == [out EXCEPT !.threw = TRUE, !.msg = msg, !.code = code]

\* a checkStatement that never throws
checkStatement_skipped(expired) == FALSE

\* void Row::checkStatement() const: does it throw
checkStatement(expired) == expired

\* a Column that only observes the handle
Column_ctor_weak(i) == [i EXCEPT !.views = @ + 1]

\* Column::Column(const Statement::TStatementPtr&, int): mStmtPtr is a copy
\* of the shared pointer
Column_ctor(i) == [i EXCEPT !.useCount = @ + 1, !.views = @ + 1]

\* ColumnIterator(TStatementPtr apStatement, int_fast16_t aID)
ColumnIterator_ctor(i) == [i EXCEPT !.useCount = @ + 1, !.views = @ + 1]

\* one owner of the handle goes; the deleter of the last one finalizes
Handle_release(i) ==
    [i EXCEPT !.useCount = @ - 1,
              !.finalizeCalls = IF i.useCount = 1 THEN @ + 1 ELSE @]

\* Column::~Column / ColumnIterator::~ColumnIterator
Column_dtor(i) ==
    [Handle_release([i EXCEPT !.views = @ - 1]) EXCEPT !.out = RowOut("~Column", i, 0)]

\* StatementExecutor::~StatementExecutor: mpStatement and mpRowExecutor go
StatementExecutor_dtor(i) ==
    [Handle_release([i EXCEPT !.stmtAlive = FALSE]) EXCEPT !.out = RowOut("~Statement", i, 0)]

\* a Row::at that refuses a Row whose number is not the current row
Row_at_checksRow(i, s, mID, aIndex, keep) ==
    LET base == [RowOut("Row::at", i, mID) EXCEPT !.arg = aIndex]
    IN IF checkStatement(Expired(i))
       THEN [i EXCEPT !.out = RowThrow(base, StaleMsg, NoCode)]
       ELSE IF s.mColumnCount <= aIndex \/ CurrentRow(s) # mID
       THEN [i EXCEPT !.out = RowThrow(base, "Column index out of range.", NoCode)]
       ELSE [(IF keep THEN Column_ctor(i) ELSE i) EXCEPT
                !.out = [base EXCEPT !.column = TRUE, !.dataRow = CurrentRow(s)]]

\* Column Row::at(int_fast16_t aIndex) const, on a Row with number mID;
\* keep: the caller stores the Column instead of using it as a temporary
Row_at(i, s, mID, aIndex, keep) ==
    LET base == [RowOut("Row::at", i, mID) EXCEPT !.arg = aIndex]
    IN IF checkStatement(Expired(i))
       THEN [i EXCEPT !.out = RowThrow(base, StaleMsg, NoCode)]
       ELSE IF s.mColumnCount <= aIndex
       THEN [i EXCEPT !.out = RowThrow(base, "Column index out of range.", NoCode)]
       ELSE [(IF keep THEN Column_ctor(i) ELSE i) EXCEPT
                !.out = [base EXCEPT !.column = TRUE, !.dataRow = CurrentRow(s)]]

\* int_fast16_t Row::getColumnIndex(const char* apName) const
Row_getColumnIndex(i, s, mID, apName) ==
    LET base == [RowOut("Row::getColumnIndex", i, mID) EXCEPT !.name = apName]
    IN IF checkStatement(Expired(i))
       THEN [i EXCEPT !.out = RowThrow(base, StaleMsg, NoCode)]
       ELSE LET locked == [base EXCEPT !.deref = Expired(i)]
            IN IF apName \notin DOMAIN s.mColumnNames
               THEN [i EXCEPT !.out = RowThrow(locked, "Unknown column name.", NoCode)]
               ELSE [i EXCEPT !.out = [locked EXCEPT !.arg = s.mColumnNames[apName]]]

\* Column Row::at(const char* aName) const
Row_atName(i, s, mID, aName, keep) ==
    LET g == Row_getColumnIndex(i, s, mID, aName)
    IN IF g.out.threw
       THEN [g EXCEPT !.out.op = "Row::at(name)"]
       ELSE [(IF keep THEN Column_ctor(i) ELSE i) EXCEPT
                !.out = [g.out EXCEPT !.op = "Row::at(name)", !.column = TRUE,
                                      !.dataRow = CurrentRow(s)]]

\* Row::ColumnIterator Row::begin() const
Row_begin(i, s, mID, keep) ==
    LET base == RowOut("Row::begin", i, mID)
    IN IF checkStatement(Expired(i))
       THEN [i EXCEPT !.out = RowThrow(base, StaleMsg, NoCode)]
       ELSE [(IF keep THEN ColumnIterator_ctor(i) ELSE i) EXCEPT
                !.out = [base EXCEPT !.deref = Expired(i), !.arg = 0]]

\* Row::ColumnIterator Row::end() const
Row_end(i, s, mID, keep) ==
    LET base == RowOut("Row::end", i, mID)
    IN IF checkStatement(Expired(i))
       THEN [i EXCEPT !.out = RowThrow(base, StaleMsg, NoCode)]
       ELSE [(IF keep THEN ColumnIterator_ctor(i) ELSE i) EXCEPT
                !.out = [base EXCEPT !.deref = Expired(i), !.arg = s.mColumnCount]]

\* bool RowIterator::operator==(const RowIterator& aIt) const
RowIterator_equals(i, a, b) ==
    LET left == ~RowExpired(i, a)
        right == ~RowExpired(i, b)
    IN IF ~left /\ ~right THEN TRUE
       ELSE IF left # right THEN FALSE
       ELSE a.mID = b.mID

\* it == end() for the sentinel RowIterator() (both weak pointers empty)
EqualsEnd(i, k) == RowIterator_equals(i, i.iters[k], NoIterator)

\* every iterator other than k saw the statement stepped or reset
Disturbed(i, k) ==
    [j \in Iterators |-> IF j = k THEN i.iters[j] ELSE [i.iters[j] EXCEPT !.clean = FALSE]]

\* RowIterator StatementExecutor::begin(): reset(); tryExecuteStep();
\* RowIterator(getStatement(), getExecutorWeakPtr(), 0)
StatementExecutor_begin(i, s, k, r) ==
    LET t == tryReset(s)
        base == [RowOut("begin", i, 0) EXCEPT !.iter = k, !.resetRet = t.ret]
    IN IF SQLITE_OK # t.ret
       THEN [i |-> [i EXCEPT !.iters = Disturbed(i, 0),
                             !.out = RowThrow(base, "errmsg", t.ret)],
             s |-> t.s]
       ELSE LET e == tryExecuteStep(t.s, r, 0)
            IN [i |-> [i EXCEPT
                         !.iters = [Disturbed(i, k) EXCEPT
                                       ![k] = [live |-> TRUE, mpRow |-> TRUE, mID |-> 0,
                                               clean |-> e.ret \notin NativeErrors]],
                         !.out = [base EXCEPT !.stepRet = e.ret, !.steps = e.steps,
                                              !.made = TRUE]],
                s |-> e.s]

\* RowIterator StatementExecutor::end(): RowIterator() initializes
\* mRow{mpStatement, mID} from the empty weak pointer, and Row::Row calls
\* checkStatement()
StatementExecutor_end(i) ==
    LET base == [RowOut("end", i, 0) EXCEPT !.expired = TRUE]
    IN IF checkStatement(TRUE)
       THEN [i EXCEPT !.out = RowThrow(base, StaleMsg, NoCode)]
       ELSE [i EXCEPT !.out = [base EXCEPT !.deref = TRUE, !.made = TRUE]]

\* reference RowIterator::operator++() noexcept: mRow = Row(mpStatement,
\* ++mID); advance().  Row::Row throws on an expired handle, which ends the
\* process here.
RowIterator_increment(i, s, k, r) ==
    LET itr == i.iters[k]
        base == [RowOut("++", i, itr.mID + 1) EXCEPT !.iter = k, !.atEnd = RowExpired(i, itr)]
    IN IF checkStatement(Expired(i))
       THEN [i |-> [i EXCEPT !.terminated = TRUE, !.out = base], s |-> s]
       ELSE IF RowExpired(i, itr)
       THEN [i |-> [i EXCEPT !.iters[k].mID = @ + 1, !.out = base], s |-> s]
       ELSE LET e == tryExecuteStep(s, r, 0)
                others == IF e.steps > 0 THEN Disturbed(i, k) ELSE i.iters
            IN [i |-> [i EXCEPT
                         !.iters = [others EXCEPT
                                       ![k] = [itr EXCEPT
                                                 !.mID = @ + 1,
                                                 !.mpRow = ~e.s.mbDone,
                                                 !.clean = @ /\ e.ret \notin NativeErrors]],
                         !.out = [base EXCEPT !.stepRet = e.ret, !.steps = e.steps]],
                s |-> e.s]

\* Row copy{ mRow }: the caller keeps a copy of iterator k's Row
Row_copy(i, k) ==
    [i EXCEPT !.row = [live |-> TRUE, mID |-> i.iters[k].mID],
              !.out = RowOut("Row(copy)", i, i.iters[k].mID)]

ApplyRows(c) ==
    it' = c.i /\ stmt' = c.s /\ UNCHANGED <<outcome, ptr, txn, txnOutcome, bk>>

ApplyRow(i) ==
    it' = i /\ UNCHANGED <<stmt, outcome, ptr, txn, txnOutcome, bk>>

(***************************************************************************)
(* Iteration: two RowIterators over the statement, and direct steps.       *)
(***************************************************************************)
RowsBegin ==
    /\ it.stmtAlive /\ ~it.terminated
    /\ \E k \in Iterators : \E r \in StepResults(tryReset(stmt).s) :
          ApplyRows(StatementExecutor_begin(it, stmt, k, r))

RowsEnd ==
    /\ it.stmtAlive /\ ~it.terminated
    /\ ApplyRow(StatementExecutor_end(it))

RowsIncrement ==
    /\ ~it.terminated
    /\ \E k \in Iterators :
          /\ it.iters[k].live
          /\ it.iters[k].mID <= MaxRows
          /\ \E r \in StepResults(stmt) :
                ApplyRows(RowIterator_increment(it, stmt, k, r))

\* executeStep() called on the statement directly
RowsExecuteStep ==
    /\ it.stmtAlive /\ ~it.terminated
    /\ \E r \in StepResults(stmt) :
          LET c == StatementExecutor_executeStep(stmt, r, 0)
          IN /\ stmt' = c.s
             /\ it' = [it EXCEPT !.iters = Disturbed(it, 0),
                                 !.out = [RowOut("executeStep", it, 0) EXCEPT
                                             !.threw = c.out.threw, !.code = c.out.code,
                                             !.msg = c.out.msg, !.steps = c.out.steps]]
             /\ UNCHANGED <<outcome, ptr, txn, txnOutcome, bk>>

StatementDestroy ==
    /\ it.stmtAlive /\ ~it.terminated
    /\ ApplyRow(StatementExecutor_dtor(it))

InitRows ==
    /\ \E rows \in 0..MaxRows : stmt = NewStatement("StatementExecutor", MaxCols, rows)
    /\ outcome = Constructed
    /\ ptr = IdlePtr
    /\ txn = IdleTxn
    /\ txnOutcome = IdleTxnOutcome
    /\ bk = IdleBackup
    /\ it = [IdleRows EXCEPT !.stmtAlive = TRUE, !.useCount = 1]

NextIterators ==
    \/ RowsBegin
    \/ RowsEnd
    \/ RowsIncrement
    \/ RowsExecuteStep
    \/ StatementDestroy

SpecIterators == InitRows /\ [][NextIterators]_vars

(***************************************************************************)
(* Rows and Columns: RowIterators without native failures, a Row copied   *)
(* out of one, the Columns and ColumnIterators made from the Rows, and    *)
(* the Statement's end.                                                   *)
(***************************************************************************)
Keeps == IF it.views < MaxViews THEN BOOLEAN ELSE {FALSE}
RowIndexes == {-1, 0, MaxCols - 1, MaxCols}
RowNames == {AllNames[1], UnknownName}
RowsHeld == {it.iters[k].mID : k \in {j \in Iterators : it.iters[j].live}}
                \cup (IF it.row.live THEN {it.row.mID} ELSE {})

RowIterBegin ==
    /\ it.stmtAlive /\ ~it.terminated
    /\ \E k \in Iterators : \E r \in StepResults(tryReset(stmt).s) \ NativeErrors :
          ApplyRows(StatementExecutor_begin(it, stmt, k, r))

RowIterIncrement ==
    /\ ~it.terminated
    /\ \E k \in Iterators :
          /\ it.iters[k].live
          /\ it.iters[k].mID < stmt.nRows
          /\ \E r \in StepResults(stmt) \ NativeErrors :
                ApplyRows(RowIterator_increment(it, stmt, k, r))

RowCopy ==
    /\ ~it.terminated
    /\ \E k \in Iterators :
          /\ it.iters[k].live
          /\ ApplyRow(Row_copy(it, k))

RowAt ==
    /\ ~it.terminated
    /\ \E mID \in RowsHeld, aIndex \in RowIndexes, keep \in Keeps :
          ApplyRow(Row_at(it, stmt, mID, aIndex, keep))

RowAtName ==
    /\ ~it.terminated
    /\ \E mID \in RowsHeld, aName \in RowNames, keep \in Keeps :
          ApplyRow(Row_atName(it, stmt, mID, aName, keep))

RowGetColumnIndex ==
    /\ ~it.terminated
    /\ \E mID \in RowsHeld, apName \in RowNames :
          ApplyRow(Row_getColumnIndex(it, stmt, mID, apName))

RowBegin ==
    /\ ~it.terminated
    /\ \E mID \in RowsHeld, keep \in Keeps :
          ApplyRow(Row_begin(it, stmt, mID, keep))

RowEnd ==
    /\ ~it.terminated
    /\ \E mID \in RowsHeld, keep \in Keeps :
          ApplyRow(Row_end(it, stmt, mID, keep))

ViewDestroy ==
    /\ ~it.terminated
    /\ it.views > 0
    /\ ApplyRow(Column_dtor(it))

NextRows ==
    \/ RowIterBegin
    \/ RowIterIncrement
    \/ RowCopy
    \/ RowAt
    \/ RowAtName
    \/ RowGetColumnIndex
    \/ RowBegin
    \/ RowEnd
    \/ ViewDestroy
    \/ StatementDestroy

SpecRows == InitRows /\ [][NextRows]_vars

RowOps == {"Row::at", "Row::at(name)", "Row::getColumnIndex", "Row::begin", "Row::end"}

\* C11 as stated: once the Statement is destroyed the native statement is
\* finalized, whatever Column / Row objects still exist.
C11_StatementDestroyFinalizes ==
    ~it.stmtAlive => it.finalizeCalls = 1

\* C11 amended: the handle's owners are the Statement and every live Column
\* and ColumnIterator; the native statement is finalized exactly when the
\* Statement and all of them are gone, and then once.  Rows and
\* RowIterators are no owners: they do not delay it.
C11_FinalizedWhenLastOwnerGone ==
    /\ it.useCount = (IF it.stmtAlive THEN 1 ELSE 0) + it.views
    /\ it.finalizeCalls = (IF ~it.stmtAlive /\ it.views = 0 THEN 1 ELSE 0)
    /\ Expired(it) <=> (it.finalizeCalls = 1)

\* the Statement is gone and a Column taken from a Row keeps the native
\* statement alive
C11_Witness ==
    /\ ~it.stmtAlive /\ it.views > 0 /\ it.finalizeCalls = 0
    /\ it.out.op = "~Statement"

\* a Row and its RowIterator exist while the native statement is finalized
C11_WitnessRowIsNoOwner ==
    /\ ~it.stmtAlive /\ it.row.live /\ it.iters[1].live /\ it.finalizeCalls = 1

\* C12: a Row operation called when the shared handle is gone throws the
\* "used after destruction" exception and constructs nothing; no Row
\* operation goes through a null handle.
C12_StaleRowThrows ==
    it.out.op \in RowOps =>
       /\ ~it.out.deref
       /\ it.out.expired => (it.out.threw /\ it.out.msg = StaleMsg /\ ~it.out.column)
       /\ it.out.expired <=> (it.finalizeCalls = 1)

\* at(name) on a Row whose statement is destroyed
C12_Witness ==
    /\ it.out.op = "Row::at(name)" /\ it.out.expired /\ it.out.threw
    /\ it.out.name = AllNames[1]

C12_WitnessAllOps ==
    /\ it.out.op = "Row::end" /\ it.out.expired /\ it.out.threw

\* C13 as stated: a Column obtained from a Row reads that Row's row or
\* nothing, never another row.
C13_StaleRowNeverReadsOtherRow ==
    (it.out.op \in {"Row::at", "Row::at(name)"} /\ it.out.column) =>
       it.out.dataRow \in {it.out.rowID, NoRow}

\* C13 amended: Row::at compares no row numbers.  With a live handle and an
\* index below the column count (a known name) it returns a Column, and the
\* Column reads the statement's current row.
C13_RowReadsCurrentRow ==
    /\ it.out.op = "Row::at" =>
          /\ (~it.out.expired /\ it.out.arg < stmt.mColumnCount) => it.out.column
          /\ it.out.column => it.out.dataRow = CurrentRow(stmt)
    /\ it.out.op = "Row::at(name)" =>
          /\ (~it.out.expired /\ it.out.name \in DOMAIN stmt.mColumnNames) => it.out.column
          /\ it.out.column => it.out.dataRow = CurrentRow(stmt)

\* a Row with number 0 is read after the statement moved to row 1
C13_Witness ==
    /\ it.out.op = "Row::at" /\ it.out.column /\ it.out.arg = 0
    /\ it.out.rowID = 0 /\ it.out.dataRow = 1

\* C16 as stated: at(index) throws for every index outside
\* 0..columnCount-1 and at(name) for every unknown name, and no Column is
\* constructed then.
C16_RowAtChecked ==
    /\ (it.out.op = "Row::at" /\ it.out.arg \notin 0..(stmt.mColumnCount - 1)) =>
          (it.out.threw /\ ~it.out.column)
    /\ (it.out.op = "Row::at(name)" /\ it.out.name \notin DOMAIN stmt.mColumnNames) =>
          (it.out.threw /\ ~it.out.column)

\* C14 as stated: for an iterator that alone drives a statement with n rows
\* and meets no native error, it == end() holds exactly from n increments
\* on, before that the current row is row number mID, and an increment at
\* the end makes no native step.
C14_EndAfterAllRows ==
    /\ \A k \in Iterators :
          (it.stmtAlive /\ it.iters[k].live /\ it.iters[k].clean) =>
             /\ EqualsEnd(it, k) <=> (it.iters[k].mID >= stmt.nRows)
             /\ ~EqualsEnd(it, k) => CurrentRow(stmt) = it.iters[k].mID
    /\ (it.out.op = "++" /\ it.out.atEnd) => it.out.steps = 0

\* C15 as stated: begin() throws, and makes no iterator, when its reset or
\* its first step fails natively.
C15_BeginThrowsOnFailure ==
    (it.out.op = "begin" /\ (it.out.resetRet # SQLITE_OK \/ it.out.stepRet \in NativeErrors)) =>
       (it.out.threw /\ ~it.out.made)

(***************************************************************************)
(* Statement::Ptr used from two threads with no lock.  The increment and  *)
(* the decrement of *mpRefCount are plain reads and writes of the shared   *)
(* counter, so a copy constructor or destructor is several steps that      *)
(* another thread's steps can fall between.                                *)
(*   threads[t].pc    "idle", or where thread t is inside a copy           *)
(*                    constructor ("copy": counter read) or a destructor   *)
(*                    ("dtor": counter read, "test": counter written)      *)
(*   threads[t].reg   the counter value thread t read                      *)
(*   threads[t].held  holders (Statement, Columns) owned by thread t       *)
(*   overlapped       history: an operation began while the other thread   *)
(*                    was inside one                                       *)
(*   started          history: operations begun so far                     *)
(* The counter is an unsigned int and wraps both ways.                     *)
(***************************************************************************)
UIntInc(n) == IF n = UIntMax THEN 0 ELSE n + 1

UIntDec(n) == IF n = 0 THEN UIntMax ELSE n - 1

LiveHolders(p) == p.threads[1].held + p.threads[2].held

Quiescent(p) == \A t \in Threads : p.threads[t].pc = "idle"

\* an operation of thread t begins: does it overlap one of the other thread
Begins(p, t) ==
    [p EXCEPT !.overlapped = @ \/ (\E u \in Threads \ {t} : p.threads[u].pc # "idle"),
              !.started = @ + 1]

\* assert(0 != *mpRefCount) at the head of the copy constructor and of the
\* destructor, in a build that keeps assertions: the process is aborted
Ptr_assert_fails(p, t) == [Begins(p, t) EXCEPT !.threads[t].pc = "aborted"]

\* the increment of *mpRefCount, first half: the value is read
Ptr_copy_load(p, t) ==
    [Begins(p, t) EXCEPT !.threads[t].pc = "copy", !.threads[t].reg = p.refCount]

\* the increment of *mpRefCount, second half: the incremented value is written; the new
\* holder exists
Ptr_copy_store(p, t) ==
    [p EXCEPT !.refCount = UIntInc(p.threads[t].reg),
              !.threads[t].pc = "idle", !.threads[t].held = @ + 1]

\* the decrement of *mpRefCount, first half
Ptr_dtor_load(p, t) ==
    [Begins(p, t) EXCEPT !.threads[t].pc = "dtor", !.threads[t].reg = p.refCount]

\* a decrement that writes the value back unchanged
Ptr_dtor_store_same(p, t) ==
    [p EXCEPT !.refCount = p.threads[t].reg, !.threads[t].pc = "test"]

\* the decrement of *mpRefCount, second half
Ptr_dtor_store(p, t) ==
    [p EXCEPT !.refCount = UIntDec(p.threads[t].reg), !.threads[t].pc = "test"]

\* if (0 == *mpRefCount): sqlite3_finalize(mpStmt), delete mpRefCount;
\* the holder is gone
Ptr_dtor_test(p, t) ==
    LET q == [p EXCEPT !.threads[t].pc = "idle", !.threads[t].held = @ - 1]
    IN IF 0 = p.refCount
       THEN [q EXCEPT !.finalizeCalls = @ + 1, !.mpStmt = "finalized",
                      !.counter = "deleted"]
       ELSE q

\* a thread touches the counter only while it exists (after delete
\* mpRefCount every further access is a use of freed memory) and while the
\* process runs
Running(p) ==
    /\ p.counter = "live"
    /\ \A t \in Threads : p.threads[t].pc # "aborted"

\* thread t is between operations, owns a holder and may begin another
MayBegin(p, t) ==
    /\ Running(p) /\ p.threads[t].pc = "idle" /\ p.threads[t].held > 0
    /\ p.started < MaxThreadOps

ThreadCopyLoad ==
    \E t \in Threads :
       /\ MayBegin(ptr, t) /\ LiveHolders(ptr) < MaxHolders
       /\ ApplyPtr(Ptr_copy_load(ptr, t))

ThreadCopyStore ==
    \E t \in Threads :
       /\ Running(ptr) /\ ptr.threads[t].pc = "copy"
       /\ ApplyPtr(Ptr_copy_store(ptr, t))

ThreadDtorLoad ==
    \E t \in Threads :
       /\ MayBegin(ptr, t)
       /\ ApplyPtr(Ptr_dtor_load(ptr, t))

ThreadDtorStore ==
    \E t \in Threads :
       /\ Running(ptr) /\ ptr.threads[t].pc = "dtor"
       /\ ApplyPtr(Ptr_dtor_store(ptr, t))

ThreadDtorTest ==
    \E t \in Threads :
       /\ Running(ptr) /\ ptr.threads[t].pc = "test"
       /\ ApplyPtr(Ptr_dtor_test(ptr, t))

ThreadAssertFails ==
    \E t \in Threads :
       /\ MayBegin(ptr, t) /\ 0 = ptr.refCount
       /\ ApplyPtr(Ptr_assert_fails(ptr, t))

\* a Statement prepared by thread 1 and a Column of it handed to thread 2
InitThreads ==
    /\ stmt = NewStatement("Statement", 0, 0)
    /\ outcome = Constructed
    /\ ptr = [IdlePtr EXCEPT !.mpStmt = "live", !.counter = "live", !.refCount = 2,
                             !.threads = [t \in Threads |-> [IdleThread EXCEPT !.held = 1]]]
    /\ txn = IdleTxn
    /\ txnOutcome = IdleTxnOutcome
    /\ bk = IdleBackup
    /\ it = IdleRows

NextThreads ==
    \/ ThreadCopyLoad
    \/ ThreadCopyStore
    \/ ThreadDtorLoad
    \/ ThreadDtorStore
    \/ ThreadDtorTest
    \/ ThreadAssertFails

SpecThreads == InitThreads /\ [][NextThreads]_vars

\* C27: the counter is kept equal to the number of live holders, and the
\* native statement finalized exactly once, when the last holder is gone,
\* only as long as no copy or destruction overlapped one in the other
\* thread; with overlapping operations the witnesses below are reached.
C27_ExactlyOnceWithoutOverlap ==
    ~ptr.overlapped =>
       /\ ptr.finalizeCalls = (IF LiveHolders(ptr) = 0 THEN 1 ELSE 0)
       /\ ptr.counter = "deleted" <=> LiveHolders(ptr) = 0
       /\ (Quiescent(ptr) /\ ptr.counter = "live") => ptr.refCount = LiveHolders(ptr)

\* overlapping copies lost an increment: fewer counted than alive
C27_Witness ==
    /\ ptr.overlapped /\ Quiescent(ptr) /\ ptr.counter = "live"
    /\ ptr.refCount < LiveHolders(ptr)

\* the native statement was finalized while a holder is alive
C27_WitnessFinalizedEarly ==
    /\ ptr.overlapped /\ ptr.finalizeCalls = 1 /\ LiveHolders(ptr) > 0

\* every holder is gone and the native statement was never finalized: the
\* counter is left above zero
C27_WitnessNeverFinalized ==
    /\ ptr.overlapped /\ Quiescent(ptr) /\ LiveHolders(ptr) = 0
    /\ ptr.finalizeCalls = 0 /\ ptr.refCount > 0

(***************************************************************************)
(* SQLite::bind(statement, args...) (VariadicBind.h): one Statement::bind  *)
(* per argument, the position counted up from 1.                           *)
(***************************************************************************)
RECURSIVE BindEach(_, _, _, _)
\* the initializer list evaluates its elements left to right: element i is
\* s.bind(first + i - 1, args[i]); an exception ends the evaluation
BindEach(s, args, first, i) ==
    IF i > Len(args)
    THEN [s |-> s, out |-> Returned("SQLite::bind", s, FALSE, 0, 0), failed |-> 0]
    ELSE LET c == Statement_bind(s, first + i - 1, args[i])
         IN IF c.out.threw
            THEN [s |-> c.s, out |-> [c.out EXCEPT !.op = "SQLite::bind"], failed |-> i]
            ELSE BindEach(c.s, args, first, i + 1)

\* a bind that numbers the positions from 0 (pos++ for ++pos)
VariadicBind_fromZero(s, args) == BindEach(s, args, 0, 1)

\* template<class ...Args> void bind(SQLite::Statement& s, const Args& ... args):
\* int pos = 0; s.bind(++pos, arg) for each argument
VariadicBind(s, args) == BindEach(s, args, 1, 1)

\* the argument lists of one to NParams + 1 values
ArgLists == UNION {[1..n -> Values] : n \in 1..(NParams + 1)}

VariadicBindCall ==
    \E args \in ArgLists :
       LET c == VariadicBind(stmt, args)
       IN /\ stmt' = c.s
          /\ outcome' = [args |-> args, before |-> stmt.bindings, failed |-> c.failed]
                            @@ [c.out EXCEPT !.pre = StateOf(stmt)]
          /\ UNCHANGED <<ptr, txn, txnOutcome, bk, it>>

NextVariadicBind ==
    \/ VariadicBindCall
    \/ Reset
    \/ ClearBindings
    \/ ExecuteStep

SpecVariadicBind == Init /\ [][NextVariadicBind]_vars

\* C26: SQLite::bind(statement, a1..an) binds a_i to position i for
\* i = 1..n in increasing order; when the bind at position k throws, the
\* positions below k hold their arguments and every other parameter (from k
\* on, and beyond n) keeps the value it had; it throws only if a position
\* could not be bound.
C26_VariadicBindInOrder ==
    outcome.op = "SQLite::bind" =>
       LET n == Len(outcome.args)
           k == IF outcome.threw THEN outcome.failed ELSE n + 1
       IN /\ outcome.threw <=> outcome.failed # 0
          /\ \A i \in 1..NParams :
                stmt.bindings[i] = IF i < k THEN outcome.args[i] ELSE outcome.before[i]
          /\ outcome.threw =>
                /\ outcome.code = BindResult(stmt, k)
                /\ k = (IF stmt.vm = "ready" THEN NParams + 1 ELSE 1)

\* one argument too many: the call threw at the last one with the earlier
\* arguments bound
C26_Witness ==
    /\ outcome.op = "SQLite::bind" /\ outcome.threw
    /\ Len(outcome.args) = NParams + 1 /\ outcome.failed = NParams + 1
    /\ outcome.before = AllNull /\ outcome.args[1] = "v1" /\ stmt.bindings[1] = "v1"

\* fewer arguments than parameters: the rest keep their values
C26_WitnessFewer ==
    /\ outcome.op = "SQLite::bind" /\ ~outcome.threw /\ Len(outcome.args) = 1
    /\ outcome.args[1] = NULL /\ outcome.before[NParams] = "v1"
    /\ stmt.bindings[NParams] = "v1"

(***************************************************************************)
(* The shared handle StatementPtr (StatementPtr.cpp) stepped and reset     *)
(* through its own functions.                                              *)
(***************************************************************************)
\* a step that counts only the rows it delivered
StatementPtr_step_countsRows(s, r, c) ==
    [s |-> [sqlite3_step(s, r, c) EXCEPT
               !.mCurrentStep = IF r = SQLITE_ROW THEN @ + 1 ELSE @],
     ret |-> r]

\* int StatementPtr::step() noexcept
StatementPtr_step(s, r, c) ==
    LET counted == [s EXCEPT !.mCurrentStep = @ + 1]
    IN [s |-> sqlite3_step(counted, r, c), ret |-> r]

\* int StatementPtr::reset() noexcept
StatementPtr_reset(s) ==
    LET zeroed == [s EXCEPT !.mCurrentStep = 0]
    IN [s |-> sqlite3_reset(zeroed), ret |-> ResetResult(zeroed)]

HandleStep ==
    /\ stmt.stepCalls < MaxSteps
    /\ \E r \in StepResults(stmt), c \in 0..MaxChanges :
          LET e == StatementPtr_step(stmt, r, c)
          IN /\ stmt' = [e.s EXCEPT !.stepCalls = @ + 1]
             /\ outcome' = Returned("StatementPtr::step", stmt, FALSE, e.ret, 1)
             /\ UNCHANGED <<ptr, txn, txnOutcome, bk, it>>

HandleReset ==
    LET e == StatementPtr_reset(stmt)
    IN /\ stmt' = [e.s EXCEPT !.stepCalls = 0]
       /\ outcome' = Returned("StatementPtr::reset", stmt, FALSE, e.ret, 0)
       /\ UNCHANGED <<ptr, txn, txnOutcome, bk, it>>

InitHandle ==
    /\ \E rows \in 0..MaxRows : stmt = NewStatement("StatementExecutor", MaxCols, rows)
    /\ outcome = Constructed
    /\ ptr = IdlePtr
    /\ txn = IdleTxn
    /\ txnOutcome = IdleTxnOutcome
    /\ bk = IdleBackup
    /\ it = IdleRows

NextHandle ==
    \/ HandleStep
    \/ HandleReset

SpecHandle == InitHandle /\ [][NextHandle]_vars

\* C24: the handle's step counter equals the number of step() calls since
\* the most recent reset() (or since construction): every step() adds one
\* whatever sqlite3_step returned, and reset() sets it to zero.
C24_StepCounterCountsSteps ==
    /\ stmt.mCurrentStep = stmt.stepCalls
    /\ outcome.op = "StatementPtr::reset" => stmt.mCurrentStep = 0
    /\ outcome.op = "StatementPtr::step" => stmt.mCurrentStep >= 1

\* counted steps that delivered no row: a failed step after a finishing one
C24_Witness ==
    /\ outcome.op = "StatementPtr::step" /\ outcome.value \in NativeErrors
    /\ stmt.mCurrentStep = MaxSteps /\ stmt.cursor < MaxSteps - 1

\* a reset after steps
C24_WitnessReset ==
    /\ outcome.op = "StatementPtr::reset" /\ outcome.pre = "Ready"
    /\ stmt.mCurrentStep = 0 /\ stmt.runs = "again"

ColumnIterator_value(c, h, aID) ==
    [live |-> TRUE, mpStatement |-> h, mRowID |-> c.mCurrentStep[h], mID |-> aID,
     init |-> TRUE]

\* ColumnIterator() = default: no handle; mRowID and mID have no initializer
\* and hold whatever the storage held
ColumnIterator_default(rowID, id) ==
    [live |-> TRUE, mpStatement |-> NullHandle, mRowID |-> rowID, mID |-> id,
     init |-> FALSE]

\* Row::ColumnIterator Row::begin() const, on a Row of statement h
Row_beginIterator(c, h) == ColumnIterator_value(c, h, 0)

\* Row::ColumnIterator Row::end() const: index mColumnCount
Row_endIterator(c, h) == ColumnIterator_value(c, h, MaxCols)

\* bool Row::ColumnIterator::operator==(const ColumnIterator& aIt) const
ColumnIterator_equals(a, b) ==
    LET left == a.mpStatement # NullHandle
        right == b.mpStatement # NullHandle
    IN IF a.mID # b.mID THEN FALSE
       ELSE IF ~left /\ ~right THEN TRUE
       ELSE IF a.mpStatement # b.mpStatement THEN FALSE
       ELSE a.mRowID = b.mRowID

\* any other operation: the result of an earlier comparison is forgotten
Uncompared(op) == [IdleColumnIterators.cmp EXCEPT !.op = op]

ApplyCols(c) ==
    it' = [it EXCEPT !.cols = c] /\ UNCHANGED <<stmt, outcome, ptr, txn, txnOutcome, bk>>

ColBegin ==
    \E k \in Iterators, h \in Handles :
       ApplyCols([it.cols EXCEPT !.iters[k] = Row_beginIterator(it.cols, h),
                                 !.cmp = Uncompared("begin")])

ColEnd ==
    \E k \in Iterators, h \in Handles :
       ApplyCols([it.cols EXCEPT !.iters[k] = Row_endIterator(it.cols, h),
                                 !.cmp = Uncompared("end")])

ColDefault ==
    \E k \in Iterators, rowID \in 0..MaxRows, id \in 0..MaxCols :
       ApplyCols([it.cols EXCEPT !.iters[k] = ColumnIterator_default(rowID, id),
                                 !.cmp = Uncompared("ColumnIterator()")])

\* ColumnIterator& operator++() noexcept
ColIncrement ==
    \E k \in Iterators :
       /\ it.cols.iters[k].live /\ it.cols.iters[k].mID < MaxCols
       /\ ApplyCols([it.cols EXCEPT !.iters[k].mID = @ + 1, !.cmp = Uncompared("++")])

\* ColumnIterator& operator--() noexcept
ColDecrement ==
    \E k \in Iterators :
       /\ it.cols.iters[k].live /\ it.cols.iters[k].mID > 0
       /\ ApplyCols([it.cols EXCEPT !.iters[k].mID = @ - 1, !.cmp = Uncompared("--")])

\* the statement of handle h is stepped: ++mCurrentStep
ColHandleStep ==
    \E h \in Handles :
       /\ it.cols.mCurrentStep[h] < MaxRows
       /\ ApplyCols([it.cols EXCEPT !.mCurrentStep[h] = @ + 1, !.cmp = Uncompared("step")])

\* the statement of handle h is reset: mCurrentStep = 0
ColHandleReset ==
    \E h \in Handles :
       /\ it.cols.mCurrentStep[h] > 0
       /\ ApplyCols([it.cols EXCEPT !.mCurrentStep[h] = 0, !.cmp = Uncompared("reset")])

ColCompare ==
    LET a == it.cols.iters[1]
        b == it.cols.iters[2]
    IN /\ a.live /\ b.live
       /\ ApplyCols([it.cols EXCEPT
                        !.cmp = [op |-> "==", a |-> a, b |-> b,
                                 result |-> ColumnIterator_equals(a, b),
                                 defined |-> a.init /\ b.init]])

NextColumnIterators ==
    \/ ColBegin
    \/ ColEnd
    \/ ColDefault
    \/ ColIncrement
    \/ ColDecrement
    \/ ColHandleStep
    \/ ColHandleReset
    \/ ColCompare

InitColumnIterators ==
    /\ stmt = NewStatement("StatementExecutor", MaxCols, MaxRows)
    /\ outcome = Constructed
    /\ ptr = IdlePtr
    /\ txn = IdleTxn
    /\ txnOutcome = IdleTxnOutcome
    /\ bk = IdleBackup
    /\ it = IdleRows

SpecColumnIterators == InitColumnIterators /\ [][NextColumnIterators]_vars

\* C25 as stated: two column iterators compare equal exactly when they hold
\* the same handle, the same row number and the same column index, also
\* when a handle is absent, and the comparison is well defined then.
C25_EqualIffSameHandleRowColumn ==
    it.cols.cmp.op = "==" =>
       LET a == it.cols.cmp.a
           b == it.cols.cmp.b
       IN /\ it.cols.cmp.result <=>
                (a.mpStatement = b.mpStatement /\ a.mRowID = b.mRowID /\ a.mID = b.mID)
          /\ (a.mpStatement = NullHandle \/ b.mpStatement = NullHandle) =>
                it.cols.cmp.defined

\* C30 as stated: an iterator that is unequal to end() right after its
\* operator++ returned stands on a current row of the statement (hasRow()),
\* also when the native step made by operator++ failed.
C30_UnequalEndHasRow ==
    \A k \in Iterators :
       (it.out.op = "++" /\ it.out.iter = k /\ ~it.terminated /\ ~EqualsEnd(it, k)) =>
          stmt.mbHasRow

ColumnOps == {"getColumn", "getColumnByName", "isColumnNull", "isColumnNullByName"}

\* a call that threw for a usage violation: a step or exec on a Done
\* statement, or a column read with no row, a bad index or an unknown name
UsageViolation ==
    /\ outcome.threw
    /\ \/ outcome.op \in StepOps /\ outcome.pre = "Done"
       \/ outcome.op \in ColumnOps

C19_WitnessSentinel ==
    /\ outcome.op = "getColumn" /\ outcome.threw /\ outcome.code = NoCode
    /\ stmt.errcode \in NativeErrors

====
